---------------------------- MODULE Spec2Model ----------------------------
(***************************************************************************)
(* Model of src/app.py: the aianalyst request pipeline (synthesis,         *)
(* sanitization, sandboxed execution, output validation, repair loop) and  *)
(* the pure text functions it relies on.                                   *)
(*                                                                         *)
(* Text is a sequence of one-character strings.  Offsets are 0-based, as   *)
(* in the Python source; Slice(s, a, b) is Python's s[a:b].                *)
(***************************************************************************)
EXTENDS Integers, Sequences, FiniteSets, TLC

VARIABLES
    pc,               \* position of the request inside aianalyst
    provided_csv_info,\* "ProvidedCSV.csv" info present (TRUE) or None (FALSE)
    extracted_sources,\* result of extract_all_urls_and_databases
    scraped_data,     \* filenames of the scraped tables, in order
    database_info,    \* source_url of the probed datasets, in order
    allowed_paths,    \* the allow list (a sequence of texts)
    raw_code,         \* program text as written before sanitization
    chatgpt_code,     \* content of the program file chatgpt_code.py
    fix_prompt,       \* the last fix prompt sent to the gateway, in segments
    fixed_code,       \* text of the last accepted fix response
    requests,         \* two concurrent requests: where each stands, what it
                      \* wrote and whose files its last execution used
    cwd_files,        \* who wrote each file of the working directory last
    horizon_response, \* shape of the initial synthesis response, or "none"
    horizon_fix,      \* shape of the last fix response
    result,           \* the Python variable `result` (last completed run)
    stage,            \* which execution stage runs: "initial", "rerun", "fix"
    fix_attempt,      \* the repair loop's attempt counter
    outcome,          \* how the request ended
    ret,              \* the value returned to the caller
    hist,             \* instrumentation: counts of what the request did
    output,           \* argument of extract_json_from_output
    json_output,      \* its result
    shape_ok,         \* result of is_valid_json_output, or "unknown"
    gateway,          \* which gateway function a call is in, or "none"
    tries,            \* the `tries` counter of that call
    posts,            \* what each backend post of the call led to, in order
    ping_result,      \* shape of what the call returned, or "none"
    question_text,    \* the task text of the request
    discovery_reply   \* what the discovery model call came back with, or "none"

vars == <<pc, provided_csv_info, extracted_sources, scraped_data, database_info,
          allowed_paths, raw_code, chatgpt_code, fix_prompt, fixed_code,
          horizon_response,
          horizon_fix,
          result, stage, fix_attempt, outcome, ret, hist, output, json_output,
          shape_ok, gateway, tries, posts, ping_result, question_text,
          discovery_reply, requests, cwd_files>>

-----------------------------------------------------------------------------
(* Python string primitives *)

Min(S) == CHOOSE x \in S : \A y \in S : x <= y
Max(S) == CHOOSE x \in S : \A y \in S : x >= y

At(s, i) == s[i + 1]

Slice(s, a, b) ==
    LET hi == IF b > Len(s) THEN Len(s) ELSE b
    IN  IF a >= hi THEN << >> ELSE SubSeq(s, a + 1, hi)

SliceFrom(s, a) == Slice(s, a, Len(s))

\* s.find(c, a) for a one-character c
FindChar(s, c, a) ==
    LET hits == {i \in a..(Len(s) - 1) : At(s, i) = c}
    IN  IF hits = {} THEN -1 ELSE Min(hits)

\* s.rfind(c, a, b) for a one-character c
RFindChar(s, c, a, b) ==
    LET hi == IF b > Len(s) THEN Len(s) ELSE b
        hits == {i \in a..(hi - 1) : At(s, i) = c}
    IN  IF hits = {} THEN -1 ELSE Max(hits)

\* s.find(sub)
FindSub(s, sub) ==
    LET hits == {i \in 0..(Len(s) - Len(sub)) : Slice(s, i, i + Len(sub)) = sub}
    IN  IF hits = {} THEN -1 ELSE Min(hits)

IsSpace(c) == c \in {" ", "\t", "\n", "\r"}

RECURSIVE LStrip(_)
LStrip(s) ==
    IF s # << >> /\ IsSpace(Head(s)) THEN LStrip(Tail(s)) ELSE s

RECURSIVE RStrip(_)
RStrip(s) ==
    IF s # << >> /\ IsSpace(s[Len(s)]) THEN RStrip(SubSeq(s, 1, Len(s) - 1)) ELSE s

Strip(s) == RStrip(LStrip(s))

RECURSIVE Spaces(_)
Spaces(n) == IF n <= 0 THEN << >> ELSE <<" ">> \o Spaces(n - 1)

RECURSIVE Join(_, _)
Join(lines, sep) ==
    IF lines = << >> THEN << >>
    ELSE IF Len(lines) = 1 THEN lines[1]
    ELSE lines[1] \o sep \o Join(Tail(lines), sep)

\* os.path.basename
Basename(path) ==
    LET i == RFindChar(path, "/", 0, Len(path))
    IN  SliceFrom(path, i + 1)

\* `x in lst` for a Python list
InList(x, lst) == \E i \in 1..Len(lst) : lst[i] = x


-----------------------------------------------------------------------------
(* The access sanitizer: aianalyst, lines 670-729 *)

IsQuote(c) == c \in {"'", "\""}

LitPdReadCsv == <<"p","d",".","r","e","a","d","_","c","s","v","(">>
LitPdReadParquet == <<"p","d",".","r","e","a","d","_","p","a","r","q","u","e","t","(">>
LitReadCsvAuto == <<"r","e","a","d","_","c","s","v","_","a","u","t","o","(">>
LitReadParquet == <<"r","e","a","d","_","p","a","r","q","u","e","t","(">>
LitOpen == <<"o","p","e","n","(">>

\* the list `patterns`: literal call prefix, then ['"]([^'"]+)['"]
patterns ==
    << [lit |-> LitPdReadCsv,     ptype |-> "csv"],
       [lit |-> LitPdReadParquet, ptype |-> "parquet"],
       [lit |-> LitReadCsvAuto,   ptype |-> "csv"],
       [lit |-> LitReadParquet,   ptype |-> "parquet"],
       [lit |-> LitOpen,          ptype |-> "open"] >>

\* position of the closing quote of a match of  lit['"]([^'"]+)['"]  that
\* starts at offset i, or -1 when the pattern does not match there
MatchClose(code, lit, i) ==
    LET n  == Len(lit)
        ps == i + n + 1
        qs == {k \in ps..(Len(code) - 1) : IsQuote(At(code, k))}
    IN  IF /\ Slice(code, i, i + n) = lit
           /\ i + n < Len(code)
           /\ IsQuote(At(code, i + n))
           /\ qs # {}
           /\ Min(qs) > ps
        THEN Min(qs)
        ELSE -1

\* re.finditer(patt, code): the non-overlapping matches, left to right.
\* Each match keeps m.start(), m.group(1) and m.group(0).
RECURSIVE FindIterFrom(_, _, _)
FindIterFrom(code, lit, p) ==
    IF p >= Len(code) THEN << >>
    ELSE LET pe == MatchClose(code, lit, p)
         IN  IF pe = -1 THEN FindIterFrom(code, lit, p + 1)
             ELSE << [start  |-> p,
                      path   |-> Slice(code, p + Len(lit) + 1, pe),
                      group0 |-> Slice(code, p, pe + 1)] >>
                  \o FindIterFrom(code, lit, pe + 1)

FindIter(code, lit) == FindIterFrom(code, lit, 0)

\* the test of line 687, negated: the path is allowed
PathAllowed(path, allowed) ==
    InList(path, allowed) \/ InList(Basename(path), allowed)

\* re.sub(r"(['\"])(<path>)\1", r"\1\1", line, count=1)
BlankQuotedPath(line, path) ==
    LET n == Len(path)
        hits == {i \in 0..(Len(line) - n - 2) :
                    /\ IsQuote(At(line, i))
                    /\ Slice(line, i + 1, i + 1 + n) = path
                    /\ At(line, i + 1 + n) = At(line, i)}
    IN  IF hits = {} THEN line
        ELSE LET i == Min(hits)
             IN  Slice(line, 0, i + 1) \o SliceFrom(line, i + 1 + n)

\* lines 696-707: the assignment branch
AssignmentReplacement(offending_line, eq_pos) ==
    LET var_name   == Slice(offending_line, 0, eq_pos + 1)
        leading_ws == Len(offending_line) - Len(LStrip(offending_line))
    IN  Spaces(leading_ws) \o var_name \o <<" ", "'", "'">>

\* lines 712-722: the in-place branch
InPlaceReplacement(offending_line, path) ==
    LET new_line   == BlankQuotedPath(offending_line, path)
        leading_ws == Len(offending_line) - Len(LStrip(offending_line))
    IN  Spaces(leading_ws) \o LStrip(new_line)

\* SanitizeMatch without the test of line 687: every match is treated as
\* disallowed
SanitizeMatchNoAllowList(st, m, ptype, allowed) ==
    LET code       == st.code
        line_start == RFindChar(code, "\n", 0, m.start) + 1
        le         == FindChar(code, "\n", m.start)
        line_end   == IF le = -1 THEN Len(code) ELSE le
        offending_line == Slice(code, line_start, line_end)
        eq_pos     == FindChar(offending_line, "=", 0)
        patt_pos   == FindSub(offending_line, m.group0)
    IN  IF eq_pos # -1 /\ eq_pos < patt_pos
        THEN [code |-> Slice(code, 0, line_start)
                         \o AssignmentReplacement(offending_line, eq_pos)
                         \o SliceFrom(code, line_end),
              modified |-> TRUE]
        ELSE IF ptype = "parquet"
        THEN [code |-> code, modified |-> TRUE]
        ELSE [code |-> Slice(code, 0, line_start)
                         \o InPlaceReplacement(offending_line, m.path)
                         \o SliceFrom(code, line_end),
              modified |-> TRUE]

\* body of the inner loop (lines 685-723) for one match m of a pattern of
\* type ptype, applied to the current text st.code
SanitizeMatch(st, m, ptype, allowed) ==
    IF PathAllowed(m.path, allowed) THEN st
    ELSE
      LET code       == st.code
          line_start == RFindChar(code, "\n", 0, m.start) + 1
          le         == FindChar(code, "\n", m.start)
          line_end   == IF le = -1 THEN Len(code) ELSE le
          offending_line == Slice(code, line_start, line_end)
          eq_pos     == FindChar(offending_line, "=", 0)
          patt_pos   == FindSub(offending_line, m.group0)
      IN  IF eq_pos # -1 /\ eq_pos < patt_pos
          THEN [code |-> Slice(code, 0, line_start)
                           \o AssignmentReplacement(offending_line, eq_pos)
                           \o SliceFrom(code, line_end),
                modified |-> TRUE]
          ELSE IF ptype = "parquet"
          THEN [code |-> code, modified |-> TRUE]
          ELSE [code |-> Slice(code, 0, line_start)
                           \o InPlaceReplacement(offending_line, m.path)
                           \o SliceFrom(code, line_end),
                modified |-> TRUE]

\* `for m in re.finditer(patt, _code)`: the matches were found in the text
\* as it was when the loop started; each is applied to the current text
RECURSIVE SanitizeMatches(_, _, _, _)
SanitizeMatches(st, ms, ptype, allowed) ==
    IF ms = << >> THEN st
    ELSE SanitizeMatches(SanitizeMatch(st, Head(ms), ptype, allowed),
                         Tail(ms), ptype, allowed)

\* `for patt, ptype in patterns`
RECURSIVE SanitizePatterns(_, _, _)
SanitizePatterns(st, k, allowed) ==
    IF k > Len(patterns) THEN st
    ELSE SanitizePatterns(
             SanitizeMatches(st, FindIter(st.code, patterns[k].lit),
                             patterns[k].ptype, allowed),
             k + 1, allowed)

\* lines 670-729: [code, modified] after the sanitizer ran on text code
Sanitize(code, allowed) ==
    SanitizePatterns([code |-> code, modified |-> FALSE], 1, allowed)

-----------------------------------------------------------------------------
(* The `quality=` strip: aianalyst, lines 659-668 and 897-905 *)

LitSavefig == <<"s","a","v","e","f","i","g">>
LitQuality == <<"q","u","a","l","i","t","y">>

\* end of a greedy \s* that starts at offset p
SkipSpace(code, p) ==
    LET stops == {k \in p..(Len(code) - 1) : ~IsSpace(At(code, k))}
    IN  IF stops = {} THEN (IF p > Len(code) THEN p ELSE Len(code)) ELSE Min(stops)

\* end (exclusive) of a match of  ,\s*quality\s*=\s*[^,)]+  at offset k, or -1
QualityArgEnd(code, k) ==
    LET q  == SkipSpace(code, k + 1)
        e  == SkipSpace(code, q + Len(LitQuality))
        stops == {x \in (e + 1)..(Len(code) - 1) : At(code, x) \in {",", ")"}}
        fin == IF stops = {} THEN Len(code) ELSE Min(stops)
    IN  IF /\ k < Len(code) /\ At(code, k) = ","
           /\ Slice(code, q, q + Len(LitQuality)) = LitQuality
           /\ e < Len(code) /\ At(code, e) = "="
           /\ fin > e + 1
        THEN fin
        ELSE -1

\* a match of (savefig\s*\([^)]*?),\s*quality\s*=\s*[^,)]+ at offset i:
\* [keep, end] with group 1 = code[i:keep], or keep = -1 when there is none
QualityMatch(code, i) ==
    LET par == SkipSpace(code, i + Len(LitSavefig))
        ks  == {k \in (par + 1)..(Len(code) - 1) :
                   /\ \A x \in (par + 1)..(k - 1) : At(code, x) # ")"
                   /\ QualityArgEnd(code, k) # -1}
    IN  IF /\ Slice(code, i, i + Len(LitSavefig)) = LitSavefig
           /\ par < Len(code) /\ At(code, par) = "("
           /\ ks # {}
        THEN [keep |-> Min(ks), end |-> QualityArgEnd(code, Min(ks))]
        ELSE [keep |-> -1, end |-> -1]

\* re.sub(..., r'\1', _code) from offset p on
RECURSIVE StripQualityFrom(_, _)
StripQualityFrom(code, p) ==
    IF p >= Len(code) THEN << >>
    ELSE LET m == QualityMatch(code, p)
         IN  IF m.keep = -1
             THEN <<At(code, p)>> \o StripQualityFrom(code, p + 1)
             ELSE Slice(code, p, m.keep) \o StripQualityFrom(code, m.end)

StripQuality(code) == StripQualityFrom(code, 0)

-----------------------------------------------------------------------------
(* Inputs of the sanitizer: program texts built from lines *)

\* y=1
LinePlain == <<"y","=","1">>
\* open('bbbbbbbbbb')
LineOpenLong == <<"o","p","e","n","(","'","b","b","b","b","b","b","b","b","b","b","'",")">>
\* open("b")
LineOpenShort == <<"o","p","e","n","(","\"","b","\"",")">>
\*  x=pd.read_csv('b')
LineCsvAssign == <<" ","x","=","p","d",".","r","e","a","d","_","c","s","v","(","'","b","'",")">>
\* pd.read_csv('a')
LineCsvFull == <<"p","d",".","r","e","a","d","_","c","s","v","(","'","a","'",")">>
\* pd.read_csv('d/a')
LineCsvBase == <<"p","d",".","r","e","a","d","_","c","s","v","(","'","d","/","a","'",")">>
\* pd.read_parquet('b')
LineParquet == <<"p","d",".","r","e","a","d","_","p","a","r","q","u","e","t","(","'","b","'",")">>
\* x=pd.read_parquet('b')
LineParquetAssign == <<"x","=","p","d",".","r","e","a","d","_","p","a","r","q","u","e","t","(","'","b","'",")">>
\* read_csv_auto('b')
LineCsvAuto == <<"r","e","a","d","_","c","s","v","_","a","u","t","o","(","'","b","'",")">>

\* print('b',open('b'))
LinePrintBoth == <<"p","r","i","n","t","(","'","b","'",",","o","p","e","n","(","'","b","'",")",")">>

ProgLines == {LinePlain, LineOpenLong, LineOpenShort, LineCsvAssign, LineCsvFull, LineCsvBase, LineParquet, LineParquetAssign, LineCsvAuto, LinePrintBoth}

MaxProgLines == 3

\* every sequence of 1..n lines
RECURSIVE LineSeqs(_)
LineSeqs(n) ==
    IF n = 0 THEN {<< >>}
    ELSE LET shorter == LineSeqs(n - 1)
         IN  shorter \cup {Append(ls, l) : ls \in {x \in shorter : Len(x) = n - 1},
                                           l \in ProgLines}

ProgramTexts == {Join(ls, <<"\n">>) : ls \in LineSeqs(MaxProgLines) \ {<< >>}}

PathA == <<"a">>

SanAllowLists == {<< >>, <<PathA>>}

-----------------------------------------------------------------------------
(* File-level steps of aianalyst on chatgpt_code.py *)

\* lines 670-729: the file after the sanitizer; rewritten only if _modified
SanitizedFile(code, allowed) ==
    LET st == Sanitize(code, allowed)
    IN  IF st.modified THEN st.code ELSE code

-----------------------------------------------------------------------------
(* Output validation: extract_json_from_output, is_valid_json_output and   *)
(* json.loads                                                              *)

\* re.findall(open .* close, s, re.DOTALL) from offset p on: `.*` is greedy,
\* so a match runs from the first opener to the last closer after it
RECURSIVE FindAllSpans(_, _, _, _)
FindAllSpans(s, open, close, p) ==
    LET opens == {i \in p..(Len(s) - 1) :
                     At(s, i) = open /\ \E j \in (i + 1)..(Len(s) - 1) : At(s, j) = close}
    IN  IF opens = {} THEN << >>
        ELSE LET i == Min(opens)
                 j == Max({k \in (i + 1)..(Len(s) - 1) : At(s, k) = close})
             IN  <<Slice(s, i, j + 1)>> \o FindAllSpans(s, open, close, j + 1)

\* max(matches, key=len): the first match of the greatest length
Longest(matches) ==
    LET best == Max({Len(matches[k]) : k \in 1..Len(matches)})
        k0   == Min({k \in 1..Len(matches) : Len(matches[k]) = best})
    IN  matches[k0]

\* extract_json_from_output with the bracket spans searched first
extract_arrays_first(out) ==
    LET stripped       == Strip(out)
        object_matches == FindAllSpans(stripped, "{", "}", 0)
        array_matches  == FindAllSpans(stripped, "[", "]", 0)
    IN  IF array_matches # << >> THEN Longest(array_matches)
        ELSE IF object_matches # << >> THEN Longest(object_matches)
        ELSE stripped

extract_json_from_output(out) ==
    LET stripped       == Strip(out)
        object_matches == FindAllSpans(stripped, "{", "}", 0)
        array_matches  == FindAllSpans(stripped, "[", "]", 0)
    IN  IF object_matches # << >> THEN Longest(object_matches)
        ELSE IF array_matches # << >> THEN Longest(array_matches)
        ELSE stripped

\* is_valid_json_output accepting any opener with any closer
is_valid_any_pair(out) ==
    LET stripped == Strip(out)
    IN  /\ stripped # << >>
        /\ Head(stripped) \in {"{", "["}
        /\ stripped[Len(stripped)] \in {"}", "]"}

is_valid_json_output(out) ==
    LET stripped == Strip(out)
    IN  /\ stripped # << >>
        /\ \/ Head(stripped) = "{" /\ stripped[Len(stripped)] = "}"
           \/ Head(stripped) = "[" /\ stripped[Len(stripped)] = "]"

IsDigit(c) == c \in {"0", "1", "2", "3", "4", "5", "6", "7", "8", "9"}

\* end (exclusive) of the string literal that starts at offset i, or -1
PString(s, i) ==
    LET close == FindChar(s, "\"", i + 1)
    IN  IF close = -1 \/ \E k \in (i + 1)..(close - 1) : At(s, k) \in {"\n", "\r", "\t", "\\"}
        THEN -1 ELSE close + 1

\* end (exclusive) of the integer literal that starts at offset i, or -1
PNumber(s, i) ==
    LET stops == {k \in i..(Len(s) - 1) : ~IsDigit(At(s, k))}
        fin   == IF stops = {} THEN Len(s) ELSE Min(stops)
    IN  IF At(s, i) = "0" /\ fin > i + 1 THEN -1 ELSE fin

\* json.loads' grammar for objects, arrays, strings and integers: each
\* operator gives the end (exclusive) of what it parsed, or -1
RECURSIVE PValue(_, _)
RECURSIVE PMembers(_, _)
RECURSIVE PElements(_, _)

PMembers(s, i) ==
    LET k == SkipSpace(s, i)
    IN  IF k >= Len(s) \/ At(s, k) # "\"" THEN -1
        ELSE LET ke == PString(s, k)
                 c  == IF ke = -1 THEN -1 ELSE SkipSpace(s, ke)
             IN  IF ke = -1 \/ c >= Len(s) \/ At(s, c) # ":" THEN -1
                 ELSE LET ve == PValue(s, c + 1)
                          d  == IF ve = -1 THEN -1 ELSE SkipSpace(s, ve)
                      IN  IF ve = -1 \/ d >= Len(s) THEN -1
                          ELSE IF At(s, d) = "," THEN PMembers(s, d + 1)
                          ELSE IF At(s, d) = "}" THEN d + 1
                          ELSE -1

PElements(s, i) ==
    LET ve == PValue(s, i)
        d  == IF ve = -1 THEN -1 ELSE SkipSpace(s, ve)
    IN  IF ve = -1 \/ d >= Len(s) THEN -1
        ELSE IF At(s, d) = "," THEN PElements(s, d + 1)
        ELSE IF At(s, d) = "]" THEN d + 1
        ELSE -1

PValue(s, i) ==
    LET j == SkipSpace(s, i)
    IN  IF j >= Len(s) THEN -1
        ELSE IF At(s, j) = "{"
        THEN LET k == SkipSpace(s, j + 1)
             IN  IF k < Len(s) /\ At(s, k) = "}" THEN k + 1 ELSE PMembers(s, j + 1)
        ELSE IF At(s, j) = "["
        THEN LET k == SkipSpace(s, j + 1)
             IN  IF k < Len(s) /\ At(s, k) = "]" THEN k + 1 ELSE PElements(s, j + 1)
        ELSE IF At(s, j) = "\"" THEN PString(s, j)
        ELSE IF IsDigit(At(s, j)) THEN PNumber(s, j)
        ELSE -1

\* json.loads(s): ok is FALSE where Python raises JSONDecodeError; the parsed
\* value is identified by its text without the insignificant whitespace
\* (no text of the model has whitespace inside a string or repeats a key)
json_loads(s) ==
    LET e == PValue(s, 0)
    IN  IF e # -1 /\ SkipSpace(s, e) >= Len(s)
        THEN [ok |-> TRUE,  value |-> SelectSeq(s, LAMBDA c : ~IsSpace(c))]
        ELSE [ok |-> FALSE, value |-> << >>]

\* s.replace(old, "") from offset p on
RECURSIVE RemoveAllFrom(_, _, _)
RemoveAllFrom(s, old, p) ==
    IF p >= Len(s) THEN << >>
    ELSE IF Slice(s, p, p + Len(old)) = old THEN RemoveAllFrom(s, old, p + Len(old))
    ELSE <<At(s, p)>> \o RemoveAllFrom(s, old, p + 1)

RemoveAll(s, old) == RemoveAllFrom(s, old, 0)

\* the backtick character, which a TLA+ string cannot hold
Backtick == "BACKTICK"

Fence == <<Backtick, Backtick, Backtick>>
FencePython == Fence \o <<"p","y","t","h","o","n">>

\* lines 651-655: the initial response's text, stripped and without fences
CleanInitialCode(raw) ==
    LET stripped == Strip(raw)
    IN  IF FindSub(stripped, Fence) # -1
        THEN RemoveAll(RemoveAll(stripped, FencePython), Fence)
        ELSE stripped

\* s.split('\n')
RECURSIVE SplitLines(_)
SplitLines(s) ==
    LET nl == FindChar(s, "\n", 0)
    IN  IF nl = -1 THEN <<s>>
        ELSE <<Slice(s, 0, nl)>> \o SplitLines(SliceFrom(s, nl + 1))

StartsWith(s, prefix) == Slice(s, 0, Len(prefix)) = prefix

\* lines 886-891: the loop over the fix response's lines
RECURSIVE CleanLines(_, _)
CleanLines(lines, in_code_block) ==
    IF lines = << >> THEN << >>
    ELSE LET line == Head(lines)
         IN  IF StartsWith(Strip(line), Fence)
             THEN CleanLines(Tail(lines), ~in_code_block)
             ELSE IF in_code_block \/ FindSub(line, Fence) = -1
             THEN <<line>> \o CleanLines(Tail(lines), in_code_block)
             ELSE CleanLines(Tail(lines), in_code_block)

\* lines 881-893: cleaned_fixed_code
CleanFixedCode(text) ==
    Strip(Join(CleanLines(SplitLines(text), FALSE), <<"\n">>))

\* a piece of a prompt: fixed text, or a value put into the prompt
Literal(text) == [kind |-> "literal", name |-> text, value |-> << >>]
Value(name, v) == [kind |-> "value", name |-> name, value |-> v]

\* lines 827-831: error_message, which no later line reads
error_message(res, code_content) ==
    <<Literal("Error: "), Literal("Return code: "), Value("returncode", res.returncode),
      Literal("Stderr: "), Value("missing", res.missing),
      Literal("Stdout: "), Value("stdout", res.stdout),
      Literal("Code:"), Value("code_content", code_content),
      Literal("Task breakdown:"), Literal("task_breaked")>>

\* lines 833-871: fix_prompt is a plain string literal, not an f-string, so
\* its braces reach the gateway as written
fix_prompt_text ==
    <<Literal("URGENT CODE FIXING TASK: CURRENT BROKEN CODE:"),
      Literal("{current_code}"),
      Literal("ERROR DETAILS:"),
      Literal("{initial_error}"),
      Literal("AVAILABLE DATA (use these exact sources):"),
      Literal("{json.dumps(data_summary, indent=2)}"),
      Literal("ORIGINAL TASK:"),
      Literal("{question_text}"),
      Literal("TASK BREAKDOWN:"),
      Literal("{task_breakdown}"),
      Literal("FIXING INSTRUCTIONS: ... Return ONLY the corrected Python code (no markdown, no explanations):"),
      Literal("IMPORTANT: If you cannot fix the code without changing the logic, output the original code unchanged.")>>

\* lines 657-729: the program file after the initial synthesis wrote it
InitialProgramFile(cleaned_code, allowed) ==
    SanitizedFile(StripQuality(cleaned_code), allowed)

\* lines 895-905: the program file after a repair wrote it
RepairedProgramFile(cleaned_fixed_code) ==
    StripQuality(cleaned_fixed_code)

-----------------------------------------------------------------------------
(* Discovery, scraping, probing and the allow list *)

DigitChars == <<"0", "1", "2", "3", "4", "5", "6", "7", "8", "9">>

\* str(n) for n >= 0
RECURSIVE IntToText(_)
IntToText(n) ==
    IF n < 10 THEN <<DigitChars[n + 1]>>
    ELSE IntToText(n \div 10) \o <<DigitChars[(n % 10) + 1]>>

LitData == <<"d","a","t","a">>
LitDotCsv == <<".","c","s","v">>
LitDotParquet == <<".","p","a","r","q","u","e","t">>
LitDotJson == <<".","j","s","o","n">>
ProvidedCsvName == <<"P","r","o","v","i","d","e","d","C","S","V",".","c","s","v">>
ExcludedSource == <<"s","3",":","/","/","i","n","d","i","a","n","-","h","i","g","h","-","c","o","u","r","t","-","j","u","d","g","m","e","n","t","s">>

EndsWith(s, suffix) ==
    Len(s) >= Len(suffix) /\ SliceFrom(s, Len(s) - Len(suffix)) = suffix

\* str.lower() on the letters of the alphabet
UpperChars == <<"A","B","C","D","E","F","G","H","I","J","K","L","M","N","O","P","Q","R","S","T","U","V","W","X","Y","Z">>
LowerChars == <<"a","b","c","d","e","f","g","h","i","j","k","l","m","n","o","p","q","r","s","t","u","v","w","x","y","z">>

LowerChar(c) ==
    IF \E k \in 1..26 : UpperChars[k] = c
    THEN LowerChars[CHOOSE k \in 1..26 : UpperChars[k] = c]
    ELSE c

Lower(s) == [k \in 1..Len(s) |-> LowerChar(s[k])]

\* `sub in s`
Contains(s, sub) == FindSub(s, sub) # -1

\* s[i:].startswith(prefix)
StartsAt(s, prefix, i) == Slice(s, i, i + Len(prefix)) = prefix

\* the class [^\s'"<>] of lines 282 and 313
IsUrlChar(c) == ~IsSpace(c) /\ c \notin {"'", "\"", "<", ">"}

\* re.findall(prefix [^\s'"<>]+, text) from offset p on, for a pattern that
\* starts with one of `prefixes`
RECURSIVE FindAllUrlsFrom(_, _, _)
FindAllUrlsFrom(text, prefixes, p) ==
    LET starts == {i \in p..(Len(text) - 1) :
                      \E pre \in prefixes :
                          /\ StartsAt(text, pre, i)
                          /\ i + Len(pre) < Len(text)
                          /\ IsUrlChar(At(text, i + Len(pre)))}
    IN  IF starts = {} THEN << >>
        ELSE LET i     == Min(starts)
                 stops == {j \in (i + 1)..(Len(text) - 1) : ~IsUrlChar(At(text, j))}
                 j     == IF stops = {} THEN Len(text) ELSE Min(stops)
             IN  <<Slice(text, i, j)>> \o FindAllUrlsFrom(text, prefixes, j)

LitHttp == <<"h","t","t","p",":","/","/">>
LitHttps == <<"h","t","t","p","s",":","/","/">>
LitS3 == <<"s","3",":","/","/">>
LitEcourts == <<"e","c","o","u","r","t","s",".","g","o","v",".","i","n">>

\* line 287: re.sub(r'[.,;)]+$', '', url)
RECURSIVE CleanUrl(_)
CleanUrl(url) ==
    IF url # << >> /\ url[Len(url)] \in {".", ",", ";", ")"}
    THEN CleanUrl(SubSeq(url, 1, Len(url) - 1))
    ELSE url

\* lines 290-293
skip_patterns == <<<<"e","x","a","m","p","l","e",".","c","o","m">>,
                   <<"d","o","c","u","m","e","n","t","a","t","i","o","n">>,
                   <<"g","i","t","h","u","b",".","c","o","m">>,
                   <<"d","o","c","s",".">>,
                   <<"h","e","l","p",".">>,
                   <<"/","d","o","c","s","/">>,
                   <<"/","h","e","l","p","/">>,
                   <<"/","g","u","i","d","e","/">>,
                   <<"/","t","u","t","o","r","i","a","l","/">>>>

\* line 317
placeholders == <<<<"x","y","z">>, <<"e","x","a","m","p","l","e">>, <<"*","*","*">>, <<"E","X","A","M","P","L","E">>>>

\* any(p in s for p in lst)
AnyIn(lst, s) == \E k \in 1..Len(lst) : Contains(s, lst[k])

\* line 300: the format is read off the URL as written, not lowercased
FormatOfUrl(clean_url) ==
    IF Contains(clean_url, LitDotParquet) THEN <<"p","a","r","q","u","e","t">>
    ELSE IF Contains(clean_url, LitDotCsv) THEN <<"c","s","v">>
    ELSE <<"j","s","o","n">>

\* a dataset reference as discovery gives it: `shape` says whether the entry
\* is an object with both keys, an object without one of them, or no object
DatasetRef(url, format) ==
    [shape |-> "object", url |-> url, format |-> format]

\* lines 285-310 on the URLs found, from the k-th on: [scrape_urls, database_files]
RECURSIVE SortUrlsFrom(_, _)
SortUrlsFrom(urls, k) ==
    IF k > Len(urls) THEN [scrape_urls |-> << >>, database_files |-> << >>]
    ELSE LET clean_url == CleanUrl(urls[k])
             rest      == SortUrlsFrom(urls, k + 1)
         IN  IF AnyIn(skip_patterns, Lower(clean_url)) THEN rest
             ELSE IF AnyIn(<<LitDotParquet, LitDotCsv, LitDotJson>>, Lower(clean_url))
             THEN [rest EXCEPT !.database_files =
                      <<DatasetRef(clean_url, FormatOfUrl(clean_url))>> \o @]
             ELSE IF ~Contains(Lower(clean_url), LitEcourts)
             THEN [rest EXCEPT !.scrape_urls = <<clean_url>> \o @]
             ELSE rest

\* lines 315-329 on the S3 paths found, from the k-th on
RECURSIVE S3RefsFrom(_, _)
S3RefsFrom(s3_urls, k) ==
    IF k > Len(s3_urls) THEN << >>
    ELSE (IF AnyIn(placeholders, s3_urls[k]) THEN << >>
          ELSE <<DatasetRef(s3_urls[k], <<"p","a","r","q","u","e","t">>)>>)
         \o S3RefsFrom(s3_urls, k + 1)

\* lines 276-335
extract_urls_with_regex(text) ==
    LET found == SortUrlsFrom(FindAllUrlsFrom(text, {LitHttp, LitHttps}, 0), 1)
        s3    == S3RefsFrom(FindAllUrlsFrom(text, {LitS3}, 0), 1)
    IN  [json_type      |-> "object",
         scrape_urls    |-> found.scrape_urls,
         database_files |-> found.database_files \o s3]

\* line 359: the file name of the table scraped at 0-based position i
ScrapeFilename(i) ==
    IF i > 0 THEN LitData \o IntToText(i + 1) \o LitDotCsv ELSE LitData \o LitDotCsv

\* ScrapeFrom with the files numbered by the tables saved so far
RECURSIVE ScrapeFromRenumbered(_, _, _)
ScrapeFromRenumbered(urls, ok, k) ==
    IF k > Len(urls) THEN << >>
    ELSE (IF ok[k]
          THEN <<[filename |-> ScrapeFilename(Cardinality({j \in 1..(k - 1) : ok[j]})),
                  source_url |-> urls[k]]>>
          ELSE << >>)
         \o ScrapeFromRenumbered(urls, ok, k + 1)

\* scrape_all_urls: ok[k] says whether the scrape of urls[k] gave a non-empty
\* table; the others failed or were empty
RECURSIVE ScrapeFrom(_, _, _)
ScrapeFrom(urls, ok, k) ==
    IF k > Len(urls) THEN << >>
    ELSE (IF ok[k] THEN <<[filename |-> ScrapeFilename(k - 1), source_url |-> urls[k]]>>
          ELSE << >>)
         \o ScrapeFrom(urls, ok, k + 1)

scrape_all_urls(urls, ok) == ScrapeFrom(urls, ok, 1)

\* what the scrape of one URL can do: give a table (line 358), give an empty
\* table (line 372) or raise (line 375)
ScrapeOutcomes == {"table", "empty", "raises"}

\* Probeable without the skip of lines 398-400
ProbeableNoSkip(db) ==
    /\ db.shape = "object"
    /\ \/ FindSub(db.format, <<"c", "s", "v">>) # -1 \/ EndsWith(db.url, LitDotCsv)
       \/ FindSub(db.format, <<"p", "a", "r", "q", "u", "e", "t">>) # -1
       \/ EndsWith(db.url, LitDotParquet)
       \/ FindSub(db.format, <<"j", "s", "o", "n">>) # -1 \/ EndsWith(db.url, LitDotJson)

\* lines 398-421: the source is neither skipped nor of an unsupported format
Probeable(db) ==
    /\ db.shape = "object"
    /\ db.url # << >>
    /\ FindSub(db.url, ExcludedSource) = -1
    /\ \/ FindSub(db.format, <<"c", "s", "v">>) # -1 \/ EndsWith(db.url, LitDotCsv)
       \/ FindSub(db.format, <<"p", "a", "r", "q", "u", "e", "t">>) # -1
       \/ EndsWith(db.url, LitDotParquet)
       \/ FindSub(db.format, <<"j", "s", "o", "n">>) # -1 \/ EndsWith(db.url, LitDotJson)

\* lines 394-442: `db_file["url"]` raises on an entry that is no object, and
\* so does `db_file.get('url')` in the handler of line 441
ProbeRaises(files) == \E k \in 1..Len(files) : files[k].shape = "not_object"

\* get_database_schemas: ok[k] says whether the engine's queries on
\* database_files[k] succeeded
RECURSIVE ProbeFrom(_, _, _)
ProbeFrom(files, ok, k) ==
    IF k > Len(files) THEN << >>
    ELSE (IF Probeable(files[k]) /\ ok[k]
          THEN <<[source_url |-> files[k].url, format |-> files[k].format]>>
          ELSE << >>)
         \o ProbeFrom(files, ok, k + 1)

get_database_schemas(files, ok) == ProbeFrom(files, ok, 1)

\* list(dict.fromkeys(xs)): duplicates dropped, first-seen order kept
RECURSIVE Dedup(_)
Dedup(xs) ==
    IF xs = << >> THEN << >>
    ELSE LET front == Dedup(SubSeq(xs, 1, Len(xs) - 1))
             x     == xs[Len(xs)]
         IN  IF InList(x, front) THEN front ELSE Append(front, x)

RECURSIVE Field(_, _)
Field(recs, f) ==
    IF recs = << >> THEN << >> ELSE <<Head(recs)[f]>> \o Field(Tail(recs), f)

\* BuildAllowedPaths without the deduplication of line 629
BuildAllowedPathsNoDedup(provided, scraped, probed) ==
    LET all == (IF provided THEN <<ProvidedCsvName>> ELSE << >>)
               \o Field(scraped, "filename") \o Field(probed, "source_url")
    IN  SelectSeq(all, LAMBDA q : q # << >>)

\* lines 618-629
BuildAllowedPaths(provided, scraped, probed) ==
    LET all == (IF provided THEN <<ProvidedCsvName>> ELSE << >>)
               \o Field(scraped, "filename") \o Field(probed, "source_url")
    IN  Dedup(SelectSeq(all, LAMBDA q : q # << >>))

-----------------------------------------------------------------------------
(* Inputs of a request: what the collaborators may answer *)

UrlDataset == <<"d","/","x",".","c","s","v">>
UrlExcluded == ExcludedSource \o <<"/", "x">>
FormatCsv == <<"c", "s", "v">>
FormatParquet == <<"p", "a", "r", "q", "u", "e", "t">>

\* a dataset reference that is a bare string, not an object
BareRef(url) == [shape |-> "not_object", url |-> url, format |-> << >>]

\* a dataset reference that is an object without the key "url" or "format"
PartRef(missing, url, format) == [shape |-> missing, url |-> url, format |-> format]

\* what json.loads of the discovery text can give (line 268): an object, whose
\* database_files may hold an entry that is no object, or no object at all
DiscoveryResults ==
    { [json_type |-> "object", scrape_urls |-> << >>, database_files |-> << >>],
      [json_type |-> "object", scrape_urls |-> <<"u1", "u2">>, database_files |->
           << DatasetRef(UrlExcluded, FormatParquet),
              DatasetRef(UrlDataset, FormatCsv) >>],
      [json_type |-> "object", scrape_urls |-> << >>, database_files |->
           << BareRef(UrlDataset), DatasetRef(UrlDataset, FormatCsv) >>],
      [json_type |-> "array", scrape_urls |-> << >>, database_files |-> << >>] }

\* task texts
\* see http://t/a, http://github.com/x
QuestionUrls == <<"s","e","e"," ","h","t","t","p",":","/","/","t","/","a",","," ","h","t","t","p",":","/","/","g","i","t","h","u","b",".","c","o","m","/","x">>
\* hi
QuestionPlain == <<"h","i">>
\* http://t/d.csv s3://b/f s3://xyz/f
QuestionFiles == <<"h","t","t","p",":","/","/","t","/","d",".","c","s","v"," ","s","3",":","/","/","b","/","f"," ","s","3",":","/","/","x","y","z","/","f">>
\* 'https://h/p.parquet'
QuestionQuoted == <<"'","h","t","t","p","s",":","/","/","h","/","p",".","p","a","r","q","u","e","t","'">>

Questions == {QuestionUrls, QuestionPlain, QuestionFiles, QuestionQuoted}

\* how the discovery model call can come back (lines 242-268): the gateway's
\* error object, a body without candidates, a candidate without the text
\* path, a text that json.loads rejects, a text that parses
DiscoveryFailures == {"error", "no_candidates", "bad_candidate", "unparseable"}

\* texts a synthesis or fix response may carry
\* pd.read_csv('data.csv')
TextAllowed == <<"p","d",".","r","e","a","d","_","c","s","v","(","'","d","a","t","a",".","c","s","v","'",")">>
\* a fenced program that opens a path outside every allow list
TextFenced == <<Backtick,Backtick,Backtick,"p","y","t","h","o","n","\n","x","=","o","p","e","n","(","'","b","'",")","\n",Backtick,Backtick,Backtick>>

ResponseTexts == {TextAllowed, TextFenced}

\* shapes of a ping_horizon response: the two accepted ones, the gateway's
\* own {"error": ...} and any other object
ResponseShapes == {"candidates", "choices", "error", "other"}

\* what a finished run of the program may print
OutObject == <<"{","\"","a","\"",":","1","}","\n">>
OutArray == <<"[","1",",","2","]","\n">>
OutArrayOfObjects == <<"[","{","\"","a","\"",":","1","}","]">>
OutText == <<"n","o","i","s","e">>
OutBadSpan == <<"{","n","o","i","s","e","}">>

Stdouts == {OutObject, OutArray, OutArrayOfObjects, OutText, OutBadSpan}

\* a CompletedProcess: missing says stderr matches "No module named '...'"
RunResults ==
    {[returncode |-> 0, missing |-> FALSE, stdout |-> o] : o \in Stdouts}
    \cup {[returncode |-> 1, missing |-> m, stdout |-> << >>] : m \in BOOLEAN}

\* `result` before any run completed
NoResult == [returncode |-> -1, missing |-> FALSE, stdout |-> << >>]

max_fix_attempts == 3

\* instrumentation: programs written, sanitizer passes, fix requests issued,
\* attempts failed; runs and installs of the current execution stage
NoHist == [written |-> 0, sanitized |-> 0, fixreq |-> 0, failed |-> 0,
           runs |-> 0, installs |-> 0]

ErrorAllFailed == "Code execution failed after all attempts"

-----------------------------------------------------------------------------
(* The request: aianalyst, lines 474-960 *)

NoResponse == "none"
NoSources == [json_type |-> "object", scrape_urls |-> << >>, database_files |-> << >>]
NoRet == [kind |-> "none", value |-> << >>, error |-> "", time |-> ""]

\* time.time() - time_start: some number of seconds, which nothing reads
Elapsed == "elapsed"

\* no gateway call is being followed
NoPing ==
    /\ gateway = "none"
    /\ tries = 0
    /\ posts = << >>
    /\ ping_result = NoResponse

\* the working directory as no request has touched it, and no request of
\* the concurrent pair under way
Requests == {1, 2}
FileNames == {"provided", "data", "program"}
NoFiles == [f \in FileNames |-> 0]
NoRequest == [at |-> "idle", attempt |-> 0, wrote |-> {}, ran |-> NoFiles]

NoTraffic ==
    /\ requests = [r \in Requests |-> NoRequest]
    /\ cwd_files = NoFiles

conVars == <<requests, cwd_files>>
exVars == <<output, json_output, shape_ok, gateway, tries, posts, ping_result>>
askVars == <<question_text, discovery_reply>>
srcVars == <<provided_csv_info, extracted_sources, scraped_data, database_info,
             allowed_paths, question_text, discovery_reply>>
codeVars == <<raw_code, chatgpt_code, fix_prompt, fixed_code>>

Init ==
    /\ pc = "start"
    /\ provided_csv_info = FALSE
    /\ extracted_sources = NoSources
    /\ scraped_data = << >>
    /\ database_info = << >>
    /\ allowed_paths = << >>
    /\ raw_code = << >>
    /\ chatgpt_code = << >>
    /\ fix_prompt = << >>
    /\ fixed_code = << >>
    /\ horizon_response = NoResponse
    /\ horizon_fix = NoResponse
    /\ result = NoResult
    /\ stage = "none"
    /\ fix_attempt = 0
    /\ outcome = "running"
    /\ ret = NoRet
    /\ hist = NoHist
    /\ output = << >>
    /\ json_output = << >>
    /\ shape_ok = "unknown"
    /\ NoPing
    /\ NoTraffic
    /\ question_text = QuestionUrls
    /\ discovery_reply = "none"

\* lines 479-550: the request is read; the provided table, if any, is
\* cleaned and saved (a failure there leaves provided_csv_info None)
ReceiveRequest ==
    /\ pc = "start"
    /\ \E provided \in BOOLEAN : provided_csv_info' = provided
    /\ pc' = "discover"
    /\ UNCHANGED <<conVars, extracted_sources, scraped_data, database_info, allowed_paths,
                   codeVars, horizon_response, horizon_fix, result, stage,
                   fix_attempt, outcome, ret, hist, exVars, askVars>>

\* lines 242-273: what extract_all_urls_and_databases returns for a reply of
\* the discovery model call; `parsed` is what json.loads gave, if it got there
extract_all_urls_and_databases_no_fallback(text, reply, parsed) ==
    IF reply \in DiscoveryFailures THEN NoSources ELSE parsed

\* extract_urls_with_regex, tabulated over the task texts
RegexSourcesOf == [text \in Questions |-> extract_urls_with_regex(text)]

extract_all_urls_and_databases(text, reply, parsed) ==
    IF reply \in DiscoveryFailures THEN RegexSourcesOf[text] ELSE parsed

\* lines 554-557: discovery; a result that is no object has no `.get` and
\* line 556 raises
Discover ==
    /\ pc = "discover"
    /\ \E reply \in DiscoveryFailures \cup {"parsed"}, parsed \in DiscoveryResults :
          /\ discovery_reply' = reply
          /\ extracted_sources' =
                extract_all_urls_and_databases(question_text, reply, parsed)
    /\ IF extracted_sources'.json_type = "object"
       THEN pc' = "scrape" /\ outcome' = outcome
       ELSE pc' = "done" /\ outcome' = "Raised"
    /\ UNCHANGED <<conVars, provided_csv_info, scraped_data, database_info, allowed_paths,
                   codeVars, horizon_response, horizon_fix, result, stage,
                   fix_attempt, ret, hist, exVars, question_text>>

\* lines 560-562
Scrape ==
    /\ pc = "scrape"
    /\ LET urls == extracted_sources.scrape_urls
       IN  \E how \in [1..Len(urls) -> ScrapeOutcomes] :
               scraped_data' = scrape_all_urls(urls, [k \in 1..Len(urls) |->
                                                        how[k] = "table"])
    /\ pc' = "probe"
    /\ UNCHANGED <<conVars, provided_csv_info, extracted_sources, database_info,
                   allowed_paths, codeVars, horizon_response, horizon_fix, result,
                   stage, fix_attempt, outcome, ret, hist, exVars, askVars>>

\* lines 565-567: the probe of the dataset references; an entry that is no
\* object makes line 395 raise and then line 442, inside the handler, raise
\* again, which nothing catches
Probe ==
    /\ pc = "probe"
    /\ LET files == extracted_sources.database_files
       IN  IF ProbeRaises(files)
           THEN /\ pc' = "done"
                /\ outcome' = "Raised"
                /\ database_info' = database_info
           ELSE /\ \E ok \in [1..Len(files) -> BOOLEAN] :
                      database_info' = get_database_schemas(files, ok)
                /\ pc' = "breakdown"
                /\ outcome' = outcome
    /\ UNCHANGED <<conVars, provided_csv_info, extracted_sources, scraped_data,
                   allowed_paths, codeVars, horizon_response, horizon_fix, result,
                   stage, fix_attempt, ret, hist, exVars, askVars>>

\* lines 569-640: the summary, the task breakdown and the allow list
Breakdown ==
    /\ pc = "breakdown"
    /\ allowed_paths' = BuildAllowedPaths(provided_csv_info, scraped_data,
                                          database_info)
    /\ pc' = "synth"
    /\ UNCHANGED <<conVars, provided_csv_info, extracted_sources, scraped_data,
                   database_info, codeVars, horizon_response, horizon_fix, result,
                   stage, fix_attempt, outcome, ret, hist, exVars, askVars>>

\* lines 641-649: TRUE when the response yields a text, FALSE when it raises
ShapeAccepted(shape) == shape \in {"candidates", "choices"}

\* SynthReturn with a response of neither shape handled as a failed attempt
SynthReturnRepairs ==
    /\ pc = "synth"
    /\ \E shape \in ResponseShapes, text \in ResponseTexts :
        /\ horizon_response' = shape
        /\ IF ShapeAccepted(shape)
           THEN /\ raw_code' = CleanInitialCode(text)
                /\ chatgpt_code' = InitialProgramFile(CleanInitialCode(text),
                                                      allowed_paths)
                /\ UNCHANGED <<fix_prompt, fixed_code>>
                /\ hist' = [hist EXCEPT !.written = @ + 1, !.sanitized = @ + 1,
                                        !.runs = 0, !.installs = 0]
                /\ pc' = "run"
                /\ stage' = "initial"
           ELSE /\ pc' = "loop"
                /\ hist' = [hist EXCEPT !.failed = @ + 1]
                /\ UNCHANGED <<codeVars, stage>>
    /\ UNCHANGED <<conVars, srcVars, horizon_fix, result, fix_attempt, outcome, ret, exVars>>

\* lines 641-729: the initial synthesis response arrives; the program is
\* written, cleaned of `quality=` and sanitized, or the request raises
SynthReturn ==
    /\ pc = "synth"
    /\ \E shape \in ResponseShapes, text \in ResponseTexts :
        /\ horizon_response' = shape
        /\ IF ShapeAccepted(shape)
           THEN /\ raw_code' = CleanInitialCode(text)
                /\ chatgpt_code' = InitialProgramFile(CleanInitialCode(text),
                                                      allowed_paths)
                /\ UNCHANGED <<fix_prompt, fixed_code>>
                /\ hist' = [hist EXCEPT !.written = @ + 1, !.sanitized = @ + 1,
                                        !.runs = 0, !.installs = 0]
                /\ pc' = "run"
                /\ stage' = "initial"
                /\ outcome' = outcome
           ELSE /\ pc' = "done"
                /\ outcome' = "Raised"
                /\ UNCHANGED <<codeVars, hist, stage>>
    /\ UNCHANGED <<conVars, srcVars, horizon_fix, result, fix_attempt, ret,
                   exVars>>

\* where a stage goes once its run (and self-heal) is over
AfterStage(st) == IF st = "rerun" THEN "fixreq" ELSE "validate"

\* Run with the timeout of an attempt's run left uncaught
RunTimeoutEscapes ==
    /\ pc = "run"
    /\ \/ \E r \in RunResults :
            /\ result' = r
            /\ pc' = IF r.returncode # 0 /\ r.missing THEN "install"
                     ELSE AfterStage(stage)
            /\ outcome' = outcome
       \/ /\ result' = result
          /\ pc' = IF stage = "rerun" THEN "fixreq" ELSE "done"
          /\ outcome' = IF stage = "rerun" THEN outcome ELSE "Raised"
    /\ hist' = [hist EXCEPT !.runs = @ + 1]
    /\ UNCHANGED <<conVars, srcVars, codeVars, horizon_response, horizon_fix, stage,
                   fix_attempt, ret, exVars>>

\* lines 733-738, 798-803, 908-913: subprocess.run of the program.  A timeout
\* of the re-run of line 798 is caught at line 828; the other two leave the
\* attempt through lines 780 and 954
Run ==
    /\ pc = "run"
    /\ \/ \E r \in RunResults :
            /\ result' = r
            /\ pc' = IF r.returncode # 0 /\ r.missing THEN "install"
                     ELSE AfterStage(stage)
       \/ /\ result' = result
          /\ pc' = IF stage = "rerun" THEN "fixreq" ELSE "loop"
    /\ hist' = [hist EXCEPT !.runs = @ + 1,
                            !.failed = IF pc' = "loop" THEN @ + 1 ELSE @]
    /\ UNCHANGED <<conVars, srcVars, codeVars, horizon_response, horizon_fix, stage,
                   fix_attempt, outcome, ret, exVars>>

\* Install with the timeout of pip left uncaught
InstallTimeoutEscapes ==
    /\ pc = "install"
    /\ hist' = [hist EXCEPT !.installs = @ + 1]
    /\ \E returned \in BOOLEAN :
          /\ pc' = IF returned THEN "healrun" ELSE "done"
          /\ outcome' = IF returned THEN outcome ELSE "Raised"
    /\ UNCHANGED <<conVars, srcVars, codeVars, horizon_response, horizon_fix, result, stage,
                   fix_attempt, ret, exVars>>

\* lines 747-753, 812-817, 922-927: pip install; when it raises (a timeout)
\* the handler of line 761, 825 or 935 skips the re-run
Install ==
    /\ pc = "install"
    /\ hist' = [hist EXCEPT !.installs = @ + 1]
    /\ \E returned \in BOOLEAN :
          pc' = IF returned THEN "healrun" ELSE AfterStage(stage)
    /\ UNCHANGED <<conVars, srcVars, codeVars, horizon_response, horizon_fix, result, stage,
                   fix_attempt, outcome, ret, exVars>>

\* HealRun with the timeout of the re-run left uncaught
HealRunTimeoutEscapes ==
    /\ pc = "healrun"
    /\ hist' = [hist EXCEPT !.runs = @ + 1]
    /\ \/ /\ \E r \in RunResults : result' = r
          /\ pc' = AfterStage(stage)
          /\ outcome' = outcome
       \/ /\ result' = result
          /\ pc' = "done"
          /\ outcome' = "Raised"
    /\ UNCHANGED <<conVars, srcVars, codeVars, horizon_response, horizon_fix, stage,
                   fix_attempt, ret, exVars>>

\* HealRun that installs again when the re-run still misses a module
HealRunRetries ==
    /\ pc = "healrun"
    /\ hist' = [hist EXCEPT !.runs = @ + 1]
    /\ \/ \E r \in RunResults :
            /\ result' = r
            /\ pc' = IF r.returncode # 0 /\ r.missing THEN "install"
                     ELSE AfterStage(stage)
       \/ /\ result' = result
          /\ pc' = AfterStage(stage)
    /\ UNCHANGED <<conVars, srcVars, codeVars, horizon_response, horizon_fix, stage,
                   fix_attempt, outcome, ret, exVars>>

\* lines 755-762, 819-826, 929-936: the re-run after the install; its
\* timeout is swallowed by the same handler and `result` stays
HealRun ==
    /\ pc = "healrun"
    /\ hist' = [hist EXCEPT !.runs = @ + 1]
    /\ \/ \E r \in RunResults : result' = r
       \/ result' = result
    /\ pc' = AfterStage(stage)
    /\ UNCHANGED <<conVars, srcVars, codeVars, horizon_response, horizon_fix, stage,
                   fix_attempt, outcome, ret, exVars>>

\* lines 764-778 and 938-952: [ok, value] of the validation of a result
Validation(r) ==
    LET stdout == Strip(r.stdout)
        json_out == extract_json_from_output(stdout)
        parsed == json_loads(json_out)
    IN  IF r.returncode = 0 /\ is_valid_json_output(json_out) /\ parsed.ok
        THEN [ok |-> TRUE, value |-> parsed.value]
        ELSE [ok |-> FALSE, value |-> << >>]

\* Validation, tabulated over the results a run can leave
ValidationOf == [r \in RunResults \cup {NoResult} |-> Validation(r)]

\* Validate without the `return output_data` of lines 772 and 946
ValidateNoReturn ==
    /\ pc = "validate"
    /\ pc' = "loop"
    /\ hist' = [hist EXCEPT !.failed = IF ValidationOf[result].ok THEN @ ELSE @ + 1]
    /\ UNCHANGED <<conVars, srcVars, codeVars, horizon_response, horizon_fix, result, stage,
                   fix_attempt, outcome, ret, exVars>>

\* lines 764-778 and 938-952
Validate ==
    /\ pc = "validate"
    /\ LET v == ValidationOf[result]
       IN  IF v.ok
           THEN /\ pc' = "done"
                /\ outcome' = "Success"
                /\ ret' = [NoRet EXCEPT !.kind = "value", !.value = v.value]
                /\ hist' = hist
           ELSE /\ pc' = "loop"
                /\ hist' = [hist EXCEPT !.failed = @ + 1]
                /\ UNCHANGED <<outcome, ret>>
    /\ UNCHANGED <<conVars, srcVars, codeVars, horizon_response, horizon_fix, result, stage,
                   fix_attempt, exVars>>

\* LoopHead without `fix_attempt += 1`
LoopHeadNoIncrement ==
    /\ pc = "loop"
    /\ pc' = "run"
    /\ stage' = "rerun"
    /\ hist' = [hist EXCEPT !.runs = 0, !.installs = 0]
    /\ UNCHANGED <<conVars, srcVars, codeVars, horizon_response, horizon_fix, result,
                   fix_attempt, outcome, ret, exVars>>

\* LoopHead with `while fix_attempt <= max_fix_attempts`
LoopHeadOffByOne ==
    /\ pc = "loop"
    /\ IF fix_attempt <= max_fix_attempts
       THEN /\ fix_attempt' = fix_attempt + 1
            /\ pc' = "run"
            /\ stage' = "rerun"
            /\ hist' = [hist EXCEPT !.runs = 0, !.installs = 0]
            /\ UNCHANGED <<outcome, ret>>
       ELSE /\ pc' = "done"
            /\ outcome' = "Exhausted"
            /\ ret' = [NoRet EXCEPT !.kind = "error", !.error = ErrorAllFailed,
                                    !.time = Elapsed]
            /\ UNCHANGED <<fix_attempt, stage, hist>>
    /\ UNCHANGED <<conVars, srcVars, codeVars, horizon_response, horizon_fix, result,
                   exVars>>

\* LoopHead with `while fix_attempt < max_fix_attempts - 1`
LoopHeadEarlyExit ==
    /\ pc = "loop"
    /\ IF fix_attempt < max_fix_attempts - 1
       THEN /\ fix_attempt' = fix_attempt + 1
            /\ pc' = "run"
            /\ stage' = "rerun"
            /\ hist' = [hist EXCEPT !.runs = 0, !.installs = 0]
            /\ UNCHANGED <<outcome, ret>>
       ELSE /\ pc' = "done"
            /\ outcome' = "Exhausted"
            /\ ret' = [NoRet EXCEPT !.kind = "error", !.error = ErrorAllFailed,
                                    !.time = Elapsed]
            /\ UNCHANGED <<fix_attempt, stage, hist>>
    /\ UNCHANGED <<conVars, srcVars, codeVars, horizon_response, horizon_fix, result,
                   exVars>>

\* lines 789-796 and 960: the head of the repair loop and the final return
LoopHead ==
    /\ pc = "loop"
    /\ IF fix_attempt < max_fix_attempts
       THEN /\ fix_attempt' = fix_attempt + 1
            /\ pc' = "run"
            /\ stage' = "rerun"
            /\ hist' = [hist EXCEPT !.runs = 0, !.installs = 0]
            /\ UNCHANGED <<outcome, ret>>
       ELSE /\ pc' = "done"
            /\ outcome' = "Exhausted"
            /\ ret' = [NoRet EXCEPT !.kind = "error", !.error = ErrorAllFailed,
                                    !.time = Elapsed]
            /\ UNCHANGED <<fix_attempt, stage, hist>>
    /\ UNCHANGED <<conVars, srcVars, codeVars, horizon_response, horizon_fix, result,
                   exVars>>

\* a fix request that also lists one more path as allowed
FixRequestExtendsAllowList ==
    /\ pc = "fixreq"
    /\ \E shape \in ResponseShapes, text \in ResponseTexts :
        /\ horizon_fix' = shape
        /\ fix_prompt' = fix_prompt_text
        /\ IF ShapeAccepted(shape)
           THEN /\ fixed_code' = text
                /\ raw_code' = CleanFixedCode(text)
                /\ chatgpt_code' = RepairedProgramFile(CleanFixedCode(text))
                /\ hist' = [hist EXCEPT !.written = @ + 1, !.fixreq = @ + 1,
                                        !.runs = 0, !.installs = 0]
                /\ pc' = "run"
                /\ stage' = "fix"
           ELSE /\ pc' = "loop"
                /\ hist' = [hist EXCEPT !.fixreq = @ + 1, !.failed = @ + 1]
                /\ UNCHANGED <<raw_code, chatgpt_code, fixed_code, stage>>
    /\ allowed_paths' = Append(allowed_paths, ProvidedCsvName)
    /\ UNCHANGED <<conVars, provided_csv_info, extracted_sources, scraped_data,
                   database_info, askVars, horizon_response, result,
                   fix_attempt, outcome, ret, exVars>>

\* a fix request that opens the program file for writing before it looks at
\* the response: a response of another shape leaves the file empty
FixRequestTruncates ==
    /\ pc = "fixreq"
    /\ \E shape \in ResponseShapes, text \in ResponseTexts :
        /\ horizon_fix' = shape
        /\ fix_prompt' = fix_prompt_text
        /\ IF ShapeAccepted(shape)
           THEN /\ fixed_code' = text
                /\ raw_code' = CleanFixedCode(text)
                /\ chatgpt_code' = RepairedProgramFile(CleanFixedCode(text))
                /\ hist' = [hist EXCEPT !.written = @ + 1, !.fixreq = @ + 1,
                                        !.runs = 0, !.installs = 0]
                /\ pc' = "run"
                /\ stage' = "fix"
           ELSE /\ pc' = "loop"
                /\ chatgpt_code' = << >>
                /\ hist' = [hist EXCEPT !.fixreq = @ + 1, !.failed = @ + 1]
                /\ UNCHANGED <<raw_code, fixed_code, stage>>
    /\ UNCHANGED <<conVars, srcVars, horizon_response, result, fix_attempt, outcome, ret,
                   exVars>>

\* lines 827-905: the fix request and, when its response yields a text, the
\* overwrite of the program and the `quality=` strip; otherwise line 879
\* raises and line 956 ends the attempt
FixRequest ==
    /\ pc = "fixreq"
    /\ \E shape \in ResponseShapes, text \in ResponseTexts :
        /\ horizon_fix' = shape
        /\ fix_prompt' = fix_prompt_text
        /\ IF ShapeAccepted(shape)
           THEN /\ fixed_code' = text
                /\ raw_code' = CleanFixedCode(text)
                /\ chatgpt_code' = RepairedProgramFile(CleanFixedCode(text))
                /\ hist' = [hist EXCEPT !.written = @ + 1, !.fixreq = @ + 1,
                                        !.runs = 0, !.installs = 0]
                /\ pc' = "run"
                /\ stage' = "fix"
           ELSE /\ pc' = "loop"
                /\ hist' = [hist EXCEPT !.fixreq = @ + 1, !.failed = @ + 1]
                /\ UNCHANGED <<raw_code, chatgpt_code, fixed_code, stage>>
    /\ UNCHANGED <<conVars, srcVars, horizon_response, result, fix_attempt, outcome, ret,
                   exVars>>

Next ==
    \/ ReceiveRequest
    \/ Discover
    \/ Scrape
    \/ Probe
    \/ Breakdown
    \/ SynthReturn
    \/ Run
    \/ Install
    \/ HealRun
    \/ Validate
    \/ LoopHead
    \/ FixRequest

Spec == Init /\ [][Next]_vars

\* every await and every child process eventually returns or fails
FairSpec == Spec /\ WF_vars(Next)

-----------------------------------------------------------------------------
(* The sanitizer on its own: any program text, any allow list *)

\* everything a request holds apart from the program and the allow list
Idle ==
    /\ provided_csv_info = FALSE
    /\ extracted_sources = NoSources
    /\ scraped_data = << >>
    /\ database_info = << >>
    /\ horizon_response = NoResponse
    /\ horizon_fix = NoResponse
    /\ result = NoResult
    /\ stage = "none"
    /\ fix_attempt = 0
    /\ outcome = "running"
    /\ ret = NoRet
    /\ hist = NoHist
    /\ question_text = << >>
    /\ discovery_reply = "none"

SanInit ==
    /\ Idle
    /\ pc = "sanitize"
    /\ raw_code \in ProgramTexts
    /\ chatgpt_code = raw_code
    /\ fix_prompt = << >>
    /\ fixed_code = << >>
    /\ allowed_paths \in SanAllowLists
    /\ output = << >>
    /\ json_output = << >>
    /\ shape_ok = "unknown"
    /\ NoPing
    /\ NoTraffic

\* lines 670-729 on the program file
SanitizeStep ==
    /\ pc = "sanitize"
    /\ chatgpt_code' = SanitizedFile(chatgpt_code, allowed_paths)
    /\ hist' = [hist EXCEPT !.sanitized = @ + 1]
    /\ pc' = "sanitized"
    /\ UNCHANGED <<conVars, srcVars, raw_code, fix_prompt, fixed_code, horizon_response, horizon_fix, result, stage,
                   fix_attempt, outcome, ret, exVars>>

SanSpec == SanInit /\ [][SanitizeStep]_vars

-----------------------------------------------------------------------------
(* The source stages on their own: any list of URLs, any list of dataset   *)
(* references                                                              *)

\* everything a request holds apart from its sources
IdleRun ==
    /\ raw_code = << >>
    /\ chatgpt_code = << >>
    /\ fix_prompt = << >>
    /\ fixed_code = << >>
    /\ horizon_response = NoResponse
    /\ horizon_fix = NoResponse
    /\ result = NoResult
    /\ stage = "none"
    /\ fix_attempt = 0
    /\ outcome = "running"
    /\ ret = NoRet
    /\ hist = NoHist
    /\ output = << >>
    /\ json_output = << >>
    /\ shape_ok = "unknown"

UrlNames == {"u1", "u2", "u3"}

MaxUrls == 3

\* every list of at most n URLs
RECURSIVE UrlSeqs(_)
UrlSeqs(n) ==
    IF n = 0 THEN {<< >>}
    ELSE LET shorter == UrlSeqs(n - 1)
         IN  shorter \cup {Append(us, u) : us \in {x \in shorter : Len(x) = n - 1},
                                           u \in UrlNames}

ScrapeInit ==
    /\ IdleRun
    /\ NoPing
    /\ NoTraffic
    /\ question_text = << >>
    /\ discovery_reply = "none"
    /\ pc = "scrape"
    /\ provided_csv_info = FALSE
    /\ \E us \in UrlSeqs(MaxUrls) :
          extracted_sources = [json_type |-> "object", scrape_urls |-> us,
                               database_files |-> << >>]
    /\ scraped_data = << >>
    /\ database_info = << >>
    /\ allowed_paths = << >>

ScrapeSpec == ScrapeInit /\ [][Scrape]_vars

\* discovery, scraping and probing on their own, for any task text
DiscoverInit ==
    /\ IdleRun
    /\ NoPing
    /\ NoTraffic
    /\ pc = "discover"
    /\ question_text \in Questions
    /\ discovery_reply = "none"
    /\ provided_csv_info = FALSE
    /\ extracted_sources = NoSources
    /\ scraped_data = << >>
    /\ database_info = << >>
    /\ allowed_paths = << >>

DiscoverNext ==
    \/ Discover
    \/ Scrape
    \/ Probe

DiscoverSpec == DiscoverInit /\ [][DiscoverNext]_vars

\* dataset references of every kind: probeable ones, the hard-excluded
\* source, an empty URL, an unsupported format, objects without a key, and a
\* bare string
\* d/y.json
UrlJson == <<"d","/","y",".","j","s","o","n">>
\* d/y
UrlOther == <<"d","/","y">>
FormatXml == <<"x", "m", "l">>
\* data.csv, the file the first scraped table is saved to
UrlLocal == <<"d","a","t","a",".","c","s","v">>

ProbeRefs ==
    { DatasetRef(UrlDataset, FormatCsv),
      DatasetRef(UrlJson, << >>),
      DatasetRef(UrlLocal, FormatCsv),
      DatasetRef(UrlExcluded, FormatParquet),
      DatasetRef(<< >>, FormatCsv),
      DatasetRef(UrlOther, FormatXml),
      PartRef("no_url", << >>, FormatCsv),
      PartRef("no_format", UrlDataset, << >>),
      BareRef(UrlDataset) }

MaxFiles == 2

\* every list of at most n dataset references
RECURSIVE RefSeqs(_)
RefSeqs(n) ==
    IF n = 0 THEN {<< >>}
    ELSE LET shorter == RefSeqs(n - 1)
         IN  shorter \cup {Append(fs, f) : fs \in {x \in shorter : Len(x) = n - 1},
                                           f \in ProbeRefs}

ProbeInit ==
    /\ IdleRun
    /\ NoPing
    /\ NoTraffic
    /\ pc = "probe"
    /\ question_text = << >>
    /\ discovery_reply = "parsed"
    /\ provided_csv_info = FALSE
    /\ \E fs \in RefSeqs(MaxFiles) :
          extracted_sources = [json_type |-> "object", scrape_urls |-> << >>,
                               database_files |-> fs]
    /\ scraped_data = << >>
    /\ database_info = << >>
    /\ allowed_paths = << >>

ProbeSpec == ProbeInit /\ [][Probe]_vars

\* scraping, probing and the building of the allow list on their own
AllowUrlLists == {<< >>, <<"u1">>, <<"u1", "u2">>}

AllowInit ==
    /\ IdleRun
    /\ NoPing
    /\ NoTraffic
    /\ pc = "scrape"
    /\ question_text = << >>
    /\ discovery_reply = "parsed"
    /\ provided_csv_info \in BOOLEAN
    /\ \E us \in AllowUrlLists, fs \in RefSeqs(MaxFiles) :
          extracted_sources = [json_type |-> "object", scrape_urls |-> us,
                               database_files |-> fs]
    /\ scraped_data = << >>
    /\ database_info = << >>
    /\ allowed_paths = << >>

AllowNext ==
    \/ Scrape
    \/ Probe
    \/ Breakdown

AllowSpec == AllowInit /\ [][AllowNext]_vars

-----------------------------------------------------------------------------
(* The cleaning of a fix response on its own: any text of a few lines *)

\* lines a fix response may consist of: two plain lines, the two fence
\* lines, and a line that ends in a fence marker
FixLines == {<<"a">>, <<"b">>, Fence, FencePython, <<"c">> \o Fence}

MaxFixLines == 4

\* every text of 1..n such lines
RECURSIVE FixTexts(_)
FixTexts(n) ==
    IF n = 1 THEN FixLines
    ELSE LET shorter == FixTexts(n - 1)
         IN  shorter \cup {t \o <<"\n">> \o l : t \in shorter, l \in FixLines}

CleanInit ==
    /\ Idle
    /\ NoPing
    /\ NoTraffic
    /\ pc = "clean"
    /\ fixed_code \in FixTexts(MaxFixLines)
    /\ raw_code = << >>
    /\ chatgpt_code = << >>
    /\ fix_prompt = << >>
    /\ allowed_paths = << >>
    /\ output = << >>
    /\ json_output = << >>
    /\ shape_ok = "unknown"

\* lines 881-905: the response text is cleaned and the program file written
CleanStep ==
    /\ pc = "clean"
    /\ raw_code' = CleanFixedCode(fixed_code)
    /\ chatgpt_code' = RepairedProgramFile(CleanFixedCode(fixed_code))
    /\ hist' = [hist EXCEPT !.written = @ + 1]
    /\ pc' = "cleaned"
    /\ UNCHANGED <<conVars, srcVars, fix_prompt, fixed_code, horizon_response, horizon_fix,
                   result, stage, fix_attempt, outcome, ret, exVars>>

CleanSpec == CleanInit /\ [][CleanStep]_vars

-----------------------------------------------------------------------------
(* Two requests served by one event loop in one working directory.  A      *)
(* request gives way to the other one only where it awaits; everything     *)
(* between two awaits, subprocess.run included, is one step.               *)

\* the variables of the single request followed elsewhere
oneVars == <<pc, srcVars, codeVars, horizon_response, horizon_fix, result, stage,
             fix_attempt, outcome, ret, hist, exVars>>

TwoInit ==
    /\ Idle
    /\ NoPing
    /\ NoTraffic
    /\ pc = "serving"
    /\ raw_code = << >>
    /\ chatgpt_code = << >>
    /\ fix_prompt = << >>
    /\ fixed_code = << >>
    /\ allowed_paths = << >>
    /\ output = << >>
    /\ json_output = << >>
    /\ shape_ok = "unknown"

\* subprocess.run(["python", "chatgpt_code.py"]) by request r: the program
\* file as it is now is executed, and it reads the data files of r's allow
\* list as they are now
Execute(reqs, fs, r) ==
    [reqs EXCEPT ![r].ran =
        [f \in FileNames |->
            IF f = "program" \/ f \in reqs[r].wrote THEN fs[f] ELSE 0]]

\* lines 480-554: the request arrives; an uploaded table is saved as
\* ProvidedCSV.csv (line 536); the discovery call is awaited
RequestArrives(r) ==
    /\ requests[r].at = "idle"
    /\ \E csv \in BOOLEAN :
        /\ cwd_files' = IF csv THEN [cwd_files EXCEPT !.provided = r] ELSE cwd_files
        /\ requests' = [requests EXCEPT
                          ![r].at = "discover",
                          ![r].wrote = IF csv THEN {"provided"} ELSE {}]
    /\ UNCHANGED oneVars

\* lines 554-601: discovery returns; with a URL to scrape the scraper is
\* awaited (line 355), without one the request goes on to the breakdown call
\* (get_database_schemas awaits nothing)
DiscoveryReturns(r) ==
    /\ requests[r].at = "discover"
    /\ \E has_urls \in BOOLEAN :
          requests' = [requests EXCEPT
                         ![r].at = IF has_urls THEN "scrape" ELSE "breakdown"]
    /\ UNCHANGED <<cwd_files, oneVars>>

\* lines 355-360 and 565-601: the scraper returns; a non-empty table is saved
\* as data.csv; the breakdown call is awaited
ScrapeReturns(r) ==
    /\ requests[r].at = "scrape"
    /\ \E table \in BOOLEAN :
        /\ cwd_files' = IF table THEN [cwd_files EXCEPT !.data = r] ELSE cwd_files
        /\ requests' = [requests EXCEPT
                          ![r].at = "breakdown",
                          ![r].wrote = IF table THEN @ \cup {"data"} ELSE @]
    /\ UNCHANGED oneVars

\* lines 601-641: the breakdown returns; the synthesis call is awaited
BreakdownReturns(r) ==
    /\ requests[r].at = "breakdown"
    /\ requests' = [requests EXCEPT ![r].at = "synth"]
    /\ UNCHANGED <<cwd_files, oneVars>>

\* lines 641-873: the synthesis response returns.  A response of an accepted
\* shape is written to chatgpt_code.py and executed; after a failure the
\* repair loop executes the file again (line 798) and awaits the fix call
SynthesisReturns(r) ==
    /\ requests[r].at = "synth"
    /\ \E accepted \in BOOLEAN, succeeds \in BOOLEAN :
        IF ~accepted
        THEN /\ requests' = [requests EXCEPT ![r].at = "done"]
             /\ cwd_files' = cwd_files
        ELSE /\ cwd_files' = [cwd_files EXCEPT !.program = r]
             /\ requests' =
                  [Execute(requests, cwd_files', r) EXCEPT
                      ![r].at = IF succeeds THEN "done" ELSE "fix",
                      ![r].attempt = IF succeeds THEN 0 ELSE 1]
    /\ UNCHANGED oneVars

\* lines 873-957 and 789-873: the fix response returns.  A response of an
\* accepted shape is written to chatgpt_code.py and executed; a response of
\* another shape raises into the handler of line 956.  Unless the execution
\* succeeded, the next pass of the loop executes the file as it is now (line
\* 798) and awaits the next fix call, or the loop is over
FixReturns(r) ==
    /\ requests[r].at = "fix"
    /\ \E accepted \in BOOLEAN, succeeds \in BOOLEAN :
        /\ cwd_files' = IF accepted THEN [cwd_files EXCEPT !.program = r] ELSE cwd_files
        /\ LET ran == IF accepted THEN Execute(requests, cwd_files', r) ELSE requests
           IN  requests' =
                 IF accepted /\ succeeds
                 THEN [ran EXCEPT ![r].at = "done"]
                 ELSE IF requests[r].attempt < max_fix_attempts
                 THEN [Execute(ran, cwd_files', r) EXCEPT ![r].attempt = @ + 1]
                 ELSE [ran EXCEPT ![r].at = "done"]
    /\ UNCHANGED oneVars

TwoNext ==
    \/ \E r \in Requests : RequestArrives(r)
    \/ \E r \in Requests : DiscoveryReturns(r)
    \/ \E r \in Requests : ScrapeReturns(r)
    \/ \E r \in Requests : BreakdownReturns(r)
    \/ \E r \in Requests : SynthesisReturns(r)
    \/ \E r \in Requests : FixReturns(r)

TwoSpec == TwoInit /\ [][TwoNext]_vars

-----------------------------------------------------------------------------
(* One gateway call on its own: ping_gemini or ping_horizon, any outcome   *)
(* of each backend post                                                    *)

max_tries == 3

\* how a backend post can fail inside the try of lines 80-99 and 132-155:
\* no connection, the 60 s or 120 s timeout, raise_for_status, a body that is
\* not JSON
PostFailures == {"connect", "timeout", "status", "body"}

\* what the JSON body of an answered post can be
PostAnswers == {"candidates", "choices", "other"}

GatewayFunctions == {"ping_gemini", "ping_horizon"}

PingInit ==
    /\ IdleRun
    /\ pc = "ping"
    /\ gateway \in GatewayFunctions
    /\ tries = 0
    /\ posts = << >>
    /\ ping_result = NoResponse
    /\ NoTraffic
    /\ question_text = << >>
    /\ discovery_reply = "none"
    /\ provided_csv_info = FALSE
    /\ extracted_sources = NoSources
    /\ scraped_data = << >>
    /\ database_info = << >>
    /\ allowed_paths = << >>

\* PingTry with one more post allowed
PingTryOnceMore ==
    /\ pc = "ping"
    /\ tries <= max_tries
    /\ \/ \E answer \in PostAnswers :
            /\ posts' = Append(posts, answer)
            /\ ping_result' = answer
            /\ pc' = "returned"
            /\ tries' = tries
       \/ \E failure \in PostFailures :
            /\ posts' = Append(posts, failure)
            /\ tries' = tries + 1
            /\ UNCHANGED <<pc, ping_result>>
    /\ UNCHANGED <<conVars, srcVars, codeVars, horizon_response, horizon_fix, result, stage,
                   fix_attempt, outcome, ret, hist, output, json_output, shape_ok,
                   gateway>>

\* lines 79-102 and 131-158: one pass of `while tries < max_tries`: the post
\* is answered and its JSON body returned, or an exception is caught and
\* counted
PingTry ==
    /\ pc = "ping"
    /\ tries < max_tries
    /\ \/ \E answer \in PostAnswers :
            /\ posts' = Append(posts, answer)
            /\ ping_result' = answer
            /\ pc' = "returned"
            /\ tries' = tries
       \/ \E failure \in PostFailures :
            /\ posts' = Append(posts, failure)
            /\ tries' = tries + 1
            /\ UNCHANGED <<pc, ping_result>>
    /\ UNCHANGED <<conVars, srcVars, codeVars, horizon_response, horizon_fix, result, stage,
                   fix_attempt, outcome, ret, hist, output, json_output, shape_ok,
                   gateway>>

\* lines 103 and 159: the loop is left and the error object returned
PingGiveUp ==
    /\ pc = "ping"
    /\ ~(tries < max_tries)
    /\ ping_result' = "error"
    /\ pc' = "returned"
    /\ UNCHANGED <<conVars, srcVars, codeVars, horizon_response, horizon_fix, result, stage,
                   fix_attempt, outcome, ret, hist, output, json_output, shape_ok,
                   gateway, tries, posts>>

PingNext ==
    \/ PingTry
    \/ PingGiveUp

PingSpec == PingInit /\ [][PingNext]_vars

-----------------------------------------------------------------------------
(* extract_json_from_output on its own: any stdout built from pieces *)

PieceObject == <<"{","\"","a","\"",":","1","}">>
PieceObject2 == <<"{","\"","a","\"",":","1",",","\"","b","\"",":","2","}">>
PieceArray == <<"[","1",",","2","]">>
PieceNoise == <<"n","o","i","s","e">>
PieceMoreText == <<"m","o","r","e","t","e","x","t">>

ObjectPieces == {PieceObject, PieceObject2}
TextPieces == {PieceNoise, PieceMoreText}

OutPieces ==
    ObjectPieces \cup TextPieces
    \cup {PieceArray, <<"{">>, <<"}">>, <<"[">>, <<"]">>, <<"\n">>}

MaxPieces == 3

\* every concatenation of at most n pieces
RECURSIVE PieceTexts(_)
PieceTexts(n) ==
    IF n = 0 THEN {<< >>}
    ELSE LET shorter == PieceTexts(n - 1)
         IN  shorter \cup {t \o q : t \in shorter, q \in OutPieces}

ExInit ==
    /\ Idle
    /\ pc = "extract"
    /\ raw_code = << >>
    /\ chatgpt_code = << >>
    /\ fix_prompt = << >>
    /\ fixed_code = << >>
    /\ allowed_paths = << >>
    /\ output \in PieceTexts(MaxPieces)
    /\ json_output = << >>
    /\ shape_ok = "unknown"
    /\ NoPing
    /\ NoTraffic

\* line 766: json_output = extract_json_from_output(stdout)
ExtractStep ==
    /\ pc = "extract"
    /\ json_output' = extract_json_from_output(output)
    /\ pc' = "extracted"
    /\ UNCHANGED <<conVars, srcVars, codeVars, horizon_response, horizon_fix, result, stage,
                   fix_attempt, outcome, ret, hist, output, shape_ok, gateway,
                   tries, posts, ping_result>>

\* line 768: is_valid_json_output applied to a text
ShapeCheckStep ==
    /\ pc = "extract"
    /\ shape_ok' = is_valid_json_output(output)
    /\ pc' = "checked"
    /\ UNCHANGED <<conVars, srcVars, codeVars, horizon_response, horizon_fix, result, stage,
                   fix_attempt, outcome, ret, hist, output, json_output, gateway,
                   tries, posts, ping_result>>

ExtractNext ==
    \/ ExtractStep
    \/ ShapeCheckStep

ExtractSpec == ExInit /\ [][ExtractNext]_vars

-----------------------------------------------------------------------------
(* Properties *)

InRepairCycle == stage \in {"rerun", "fix"}

\* C1: whatever fails, the repair loop runs at most 3 cycles of fix request
\* plus execution; the attempt counter is 1 in the first cycle, counts the
\* cycles one by one (it equals the number of fix requests issued, plus the
\* one still to come in the current cycle) and never exceeds 3.
C1_RepairBound ==
    /\ [](fix_attempt \in 0..max_fix_attempts)
    /\ [](hist.fixreq <= max_fix_attempts)
    /\ [](hist.written <= 1 + hist.fixreq)
    /\ [](InRepairCycle => fix_attempt >= 1)
    /\ [](~InRepairCycle => fix_attempt = 0 /\ hist.fixreq = 0)
    /\ []((stage = "rerun" /\ pc \in {"run", "install", "healrun", "fixreq"})
             => hist.fixreq = fix_attempt - 1)
    /\ []((stage = "fix" \/ (stage = "rerun" /\ pc \in {"loop", "done"}))
             => hist.fixreq = fix_attempt)
    /\ [][fix_attempt' # fix_attempt
             => (pc = "loop" /\ pc' = "run" /\ fix_attempt' = fix_attempt + 1)]_vars
    /\ [][(pc = "loop" /\ pc' = "run") => fix_attempt' = fix_attempt + 1]_vars

\* the third repair cycle has failed
C1_Witness ==
    pc = "loop" /\ fix_attempt = max_fix_attempts /\ hist.fixreq = max_fix_attempts

\* C2 as stated: counting the initial one, a request never runs a fourth
\* synthesis/execution cycle (the initial one plus at most two repairs).
C2_AtMostThreeCycles == hist.written <= 3

\* C2 amended: a request runs at most four synthesis/execution cycles, the
\* initial one plus at most three repairs; the failure of the third repair
\* leads directly to Exhausted, so a fifth cycle never runs.
C2_AtMostFourCycles ==
    /\ [](hist.written <= max_fix_attempts + 1)
    /\ [][(pc = "loop" /\ fix_attempt = max_fix_attempts)
             => (pc' = "done" /\ outcome' = "Exhausted")]_vars

\* a fourth program was written and run, and the request is exhausted
C2_Witness == hist.written = max_fix_attempts + 1 /\ outcome = "Exhausted"

CheckedPattern(k) == patterns[k].ptype \in {"csv", "open"}

\* C3: after sanitization every surviving literal path of a CSV read, a CSV
\* schema probe call or a file open is in the allow list, by full value or
\* by basename (a blanked path no longer matches the pattern).
C3_SurvivingPathsAllowed ==
    pc = "sanitized" =>
        \A k \in 1..Len(patterns) : CheckedPattern(k) =>
            LET ms == FindIter(chatgpt_code, patterns[k].lit)
            IN  \A i \in 1..Len(ms) : PathAllowed(ms[i].path, allowed_paths)

\* with nothing allowed, the second file open of a program keeps its path
C3_Witness ==
    /\ pc = "sanitized"
    /\ allowed_paths = << >>
    /\ raw_code = Join(<<LineOpenLong, LineOpenShort, LinePlain>>, <<"\n">>)
    /\ chatgpt_code = Join(<<<<"o","p","e","n","(","'","'",")">>, LineOpenShort,
                             LinePlain>>, <<"\n">>)

\* the result of validating the current result, written out
ResultSucceeds ==
    /\ result.returncode = 0
    /\ is_valid_json_output(extract_json_from_output(Strip(result.stdout)))
    /\ json_loads(extract_json_from_output(Strip(result.stdout))).ok

\* C4: a validated result with exit status 0 whose extracted output passes
\* the shape check and parses ends the request in Success with the parsed
\* value; after Success nothing is requested, written, sanitized or run; a
\* request whose initial attempt succeeded issued no fix request.
C4_SuccessEndsRequest ==
    /\ [][(pc = "validate" /\ ResultSucceeds)
             => /\ pc' = "done"
                /\ outcome' = "Success"
                /\ ret'.kind = "value"
                /\ ret'.value =
                     json_loads(extract_json_from_output(Strip(result.stdout))).value]_vars
    /\ [][outcome = "Success"
             => UNCHANGED <<hist, codeVars, result, fix_attempt, horizon_fix, ret>>]_vars
    /\ []((outcome = "Success" /\ fix_attempt = 0)
             => (hist.fixreq = 0 /\ horizon_fix = NoResponse /\ hist.written = 1))
    /\ [](outcome = "Success" => (pc = "done" /\ ResultSucceeds))

\* the second repair attempt succeeded
C4_Witness ==
    outcome = "Success" /\ fix_attempt = 2 /\ stage = "fix" /\ ret.kind = "value"

AllAttemptsFailed == hist.failed = max_fix_attempts + 1

\* C5: the structured failure is returned exactly when the initial attempt
\* and all repair attempts of the budget have failed: never while an attempt
\* remains, and a request whose attempts all failed returns nothing else.
C5_ExhaustedExactly ==
    /\ [](ret.kind = "error" <=> outcome = "Exhausted")
    /\ [](outcome = "Exhausted"
             => /\ pc = "done"
                /\ ret = [kind |-> "error", value |-> << >>,
                          error |-> ErrorAllFailed, time |-> Elapsed]
                /\ fix_attempt = max_fix_attempts
                /\ AllAttemptsFailed)
    /\ [](AllAttemptsFailed => (pc = "loop" \/ outcome = "Exhausted"))
    /\ [][(pc = "loop" /\ AllAttemptsFailed) => outcome' = "Exhausted"]_vars

\* every attempt failed and the structured failure was returned
C5_Witness == outcome = "Exhausted" /\ AllAttemptsFailed /\ ret.kind = "error"

\* C6 as stated: a request that terminates does so in Success or in
\* Exhausted.
C6_EndsInSuccessOrExhausted ==
    pc = "done" => outcome \in {"Success", "Exhausted"}

\* C6 amended: every started request eventually terminates: it returns in
\* Success or in Exhausted, or it ends with an error raised before any
\* program was written or run.
C6_Terminates ==
    /\ <>(pc = "done")
    /\ [](pc = "done"
             => \/ outcome \in {"Success", "Exhausted"}
                \/ /\ outcome = "Raised"
                   /\ stage = "none" /\ hist.runs = 0 /\ hist.written = 0)

\* a request that ended with the error raised at line 649
C6_Witness == pc = "done" /\ outcome = "Raised" /\ horizon_response = "other"

\* C7: an initial synthesis response of neither accepted shape (the
\* gateway's error response included) aborts the request at once: no program
\* is written, sanitized or run and no repair attempt starts.
C7_BadInitialResponseAborts ==
    horizon_response \in {"error", "other"} =>
        /\ pc = "done"
        /\ outcome = "Raised"
        /\ hist = NoHist
        /\ stage = "none"
        /\ fix_attempt = 0
        /\ horizon_fix = NoResponse
        /\ chatgpt_code = << >>
    /\ fix_prompt = << >>
    /\ fixed_code = << >>
        /\ ret = NoRet

\* the gateway gave up and answered with its error field
C7_Witness == horizon_response = "error" /\ pc = "done"

\* C8: every match of the Parquet-read patterns in the program is still
\* there, unchanged, after sanitization.
C8_ParquetMatchesUntouched ==
    pc = "sanitized" =>
        \A k \in 1..Len(patterns) : patterns[k].ptype = "parquet" =>
            Field(FindIter(chatgpt_code, patterns[k].lit), "group0")
                = Field(FindIter(raw_code, patterns[k].lit), "group0")

\* the Parquet read on the right of an assignment was replaced by ''
C8_Witness ==
    /\ pc = "sanitized"
    /\ allowed_paths = << >>
    /\ raw_code = LineParquetAssign
    /\ chatgpt_code = <<"x","="," ","'","'">>

\* the text is one well-formed JSON object or array
IsJsonDocument(text) ==
    /\ json_loads(text).ok
    /\ Strip(text) # << >>
    /\ Head(Strip(text)) \in {"{", "["}

\* C9: a validated run with exit status 0 whose stdout is one well-formed
\* JSON object or array ends the request in Success with that value.
C9_WellFormedStdoutReturned ==
    [][(pc = "validate" /\ result.returncode = 0 /\ IsJsonDocument(result.stdout))
          => /\ pc' = "done"
             /\ outcome' = "Success"
             /\ ret'.kind = "value"
             /\ ret'.value = json_loads(result.stdout).value]_vars

\* the program printed [{"a":1}] and the request returned {"a":1}
C9_Witness ==
    /\ outcome = "Success"
    /\ result.stdout = OutArrayOfObjects
    /\ ret.value = json_loads(PieceObject).value
    /\ ret.value # json_loads(OutArrayOfObjects).value

\* C10: for a stdout made of two brace spans with text between them, extract
\* returns the longer of the two spans.
C10_ReturnsLongerSpan ==
    pc = "extracted" =>
        \A a \in ObjectPieces, b \in ObjectPieces, t \in TextPieces :
            output = a \o t \o b =>
                json_output = (IF Len(a) >= Len(b) THEN a ELSE b)

\* from the first brace of the first span to the last brace of the second
C10_Witness ==
    /\ pc = "extracted"
    /\ output = PieceObject \o PieceMoreText \o PieceObject2
    /\ json_output = output


\* the text holds an opener with a closer somewhere after it
HasSpan(s, open, close) ==
    \E i \in 1..Len(s) : s[i] = open /\ \E j \in (i + 1)..Len(s) : s[j] = close

\* t occurs in s as a contiguous piece
IsSubstring(t, s) ==
    \E a \in 0..(Len(s) - Len(t)) : Slice(s, a, a + Len(t)) = t

\* C11: for a stdout with a brace span and a bracket span, in any order or
\* nesting, extract returns a piece of the stdout that starts with '{'; what
\* it returns starts with '[' taken from a bracket span only when the stdout
\* has no brace span.
C11_BracesBeforeBrackets ==
    pc = "extracted" =>
        /\ (HasSpan(output, "{", "}") /\ HasSpan(output, "[", "]"))
              => /\ json_output # << >>
                 /\ Head(json_output) = "{"
                 /\ json_output[Len(json_output)] = "}"
                 /\ IsSubstring(json_output, output)
        /\ (~HasSpan(output, "{", "}") /\ HasSpan(output, "[", "]"))
              => /\ Head(json_output) = "["
                 /\ json_output[Len(json_output)] = "]"
        /\ (json_output # << >> /\ Head(json_output) = "[" /\ HasSpan(output, "[", "]"))
              => ~HasSpan(output, "{", "}")

\* an array printed before an object: the object is returned
C11_Witness ==
    /\ pc = "extracted"
    /\ output = PieceArray \o PieceNoise \o PieceObject
    /\ json_output = PieceObject

\* C12: the shape check accepts a text exactly when, trimmed, it starts and
\* ends with a matching pair { } or [ ]; whether the text parses plays no part.
C12_ShapeCheckIsMatchingPair ==
    pc = "checked" =>
        LET t == Strip(output)
        IN  shape_ok = (/\ Len(t) >= 1
                        /\ <<t[1], t[Len(t)]>> \in {<<"{", "}">>, <<"[", "]">>})

\* a text that does not parse is accepted on its first and last character
C12_Witness ==
    /\ pc = "checked"
    /\ shape_ok = TRUE
    /\ ~json_loads(output).ok


\* the members of a set of positions, in increasing order
RECURSIVE InOrder(_)
InOrder(S) ==
    IF S = {} THEN << >> ELSE <<Min(S)>> \o InOrder(S \ {Min(S)})

\* data.csv for position 1, data<k>.csv for position k > 1 (k <= 9)
C13_NameAt(k) ==
    IF k = 1 THEN <<"d","a","t","a",".","c","s","v">>
    ELSE <<"d","a","t","a", DigitChars[k + 1], ".","c","s","v">>

MissingModule == result.returncode # 0 /\ result.missing

\* C14: in one execution stage a failed run whose stderr names a missing
\* module is followed by one install and at most one re-run: never a second
\* install or a third run in the stage, even when the re-run misses a module
\* again, and the self-heal leaves the attempt counter alone.
C14_SingleSelfHeal ==
    /\ [](hist.installs <= 1 /\ hist.runs <= 2)
    /\ [](hist.runs = 2 => hist.installs = 1)
    /\ [][(/\ pc = "run"
           /\ result' # result
           /\ result'.returncode # 0
           /\ result'.missing)
             => (pc' = "install" /\ hist.installs = 0)]_vars
    /\ [][(pc # "install" /\ pc' = "install")
             => (/\ pc = "run"
                 /\ result'.returncode # 0
                 /\ result'.missing
                 /\ hist'.runs = 1)]_vars
    /\ [][pc = "install"
             => (/\ hist'.installs = 1
                 /\ hist'.runs = 1
                 /\ result' = result
                 /\ pc' \in {"healrun", AfterStage(stage)})]_vars
    /\ [][pc = "healrun"
             => (/\ pc' = AfterStage(stage)
                 /\ hist'.runs = 2
                 /\ hist'.installs = 1)]_vars
    /\ [][(pc = "install" \/ pc = "healrun")
             => (fix_attempt' = fix_attempt /\ stage' = stage)]_vars

\* the re-run after the install misses a module again and the stage is over
C14_Witness ==
    /\ pc \in {"validate", "fixreq"}
    /\ hist.runs = 2 /\ hist.installs = 1
    /\ MissingModule


\* C15: a timeout of a program execution ends at most the current attempt.
\* Whatever a run or a self-heal re-run does, the request goes on; a run that
\* leaves its attempt (the timeout of lines 780 and 954) counts one failed
\* attempt and changes nothing else; the loop head then starts the next
\* repair attempt or, the budget spent, returns the structured failure; no
\* request that ran a program ends with a raised error.
C15_TimeoutFailsOnlyAttempt ==
    /\ [][(pc = "run" \/ pc = "install" \/ pc = "healrun")
             => (/\ outcome' = "running"
                 /\ pc' \in {"install", "healrun", "validate", "fixreq", "loop"}
                 /\ ret' = ret)]_vars
    /\ [][(pc = "run" /\ pc' = "loop")
             => (/\ stage \in {"initial", "fix"}
                 /\ hist'.failed = hist.failed + 1
                 /\ result' = result
                 /\ fix_attempt' = fix_attempt)]_vars
    /\ [][pc = "loop"
             => (\/ /\ fix_attempt < max_fix_attempts
                    /\ fix_attempt' = fix_attempt + 1
                    /\ pc' = "run" /\ stage' = "rerun"
                    /\ outcome' = "running"
                 \/ /\ fix_attempt = max_fix_attempts
                    /\ pc' = "done" /\ outcome' = "Exhausted"
                    /\ ret'.kind = "error" /\ ret'.error = ErrorAllFailed)]_vars
    /\ [](outcome = "Raised" => (stage = "none" /\ hist.runs = 0))

\* no run of the request ever completed, the last repaired program was run
\* once, and the request ended with the structured failure
C15_Witness ==
    /\ outcome = "Exhausted"
    /\ result = NoResult
    /\ stage = "fix"
    /\ hist.runs = 1
    /\ ret.kind = "error"


\* C16: a gateway call posts to the backend at most 3 times; it returns the
\* body of the first answered post and posts no more; after 3 failed posts
\* it returns the object with the error field; it never raises.
C16_GatewayRetriesThenErrorField ==
    /\ [](Len(posts) <= max_tries /\ pc \in {"ping", "returned"})
    /\ [](\A k \in 1..(Len(posts) - 1) : posts[k] \in PostFailures)
    /\ [](tries = Cardinality({k \in 1..Len(posts) : posts[k] \in PostFailures}))
    /\ [](pc = "returned"
             => \/ /\ posts # << >>
                   /\ posts[Len(posts)] \in PostAnswers
                   /\ ping_result = posts[Len(posts)]
                \/ /\ Len(posts) = max_tries
                   /\ \A k \in 1..Len(posts) : posts[k] \in PostFailures
                   /\ ping_result = "error")
    /\ [](pc = "ping" => ping_result = NoResponse)
    /\ [][pc = "returned" => UNCHANGED <<posts, ping_result>>]_vars

\* three posts failed and the caller got the error object
C16_Witness ==
    /\ pc = "returned"
    /\ ping_result = "error"
    /\ posts = <<"timeout", "status", "connect">>


\* C17: when the discovery model call fails, has no candidates, or gives a
\* text that does not parse, discovery returns what the regex extractor finds
\* in the task text, nothing is raised, and scraping and probing follow.
C17_DiscoveryFallsBackToRegex ==
    /\ [][(pc = "discover" /\ discovery_reply' \in DiscoveryFailures)
             => (/\ extracted_sources' = extract_urls_with_regex(question_text)
                 /\ pc' = "scrape"
                 /\ outcome' = "running")]_vars
    /\ [](discovery_reply \in DiscoveryFailures
             => (/\ extracted_sources = extract_urls_with_regex(question_text)
                 /\ outcome = "running"
                 /\ pc \in {"scrape", "probe", "breakdown"}))
    /\ [][(discovery_reply \in DiscoveryFailures /\ pc = "scrape") => pc' = "probe"]_vars
    /\ [][(discovery_reply \in DiscoveryFailures /\ pc = "probe") => pc' = "breakdown"]_vars

\* the discovery text did not parse; the two datasets named in the task text
\* were found by the regex extractor and probed
C17_Witness ==
    /\ discovery_reply = "unparseable"
    /\ question_text = QuestionFiles
    /\ pc = "breakdown"
    /\ Field(extracted_sources.database_files, "url") = <<<<"h","t","t","p",":","/","/","t","/","d",".","c","s","v">>, <<"s","3",":","/","/","b","/","f">>>>
    /\ Field(database_info, "source_url") = <<<<"h","t","t","p",":","/","/","t","/","d",".","c","s","v">>, <<"s","3",":","/","/","b","/","f">>>>


\* the URLs of the references at the positions of S, in input order
RECURSIVE UrlsAt(_, _)
UrlsAt(files, ks) ==
    IF ks = << >> THEN << >> ELSE <<files[Head(ks)].url>> \o UrlsAt(files, Tail(ks))

\* C18: a probe failure on one source omits only that source: the batch
\* never aborts, and every source that can be probed and whose queries
\* succeed yields its entry, in input order.
C18_ProbeFailureOmitsOnlyThatSource ==
    [][pc = "probe"
          => LET files == extracted_sources.database_files
             IN  /\ pc' = "breakdown"
                 /\ outcome' = "running"
                 /\ \E ok \in [1..Len(files) -> BOOLEAN] :
                       Field(database_info', "source_url")
                         = UrlsAt(files, InOrder({k \in 1..Len(files) :
                                      Probeable(files[k]) /\ ok[k]}))]_vars

\* a bare string before a probeable dataset: the batch raised, nothing was
\* probed
C18_Witness ==
    /\ pc = "done"
    /\ outcome = "Raised"
    /\ extracted_sources.database_files
         = <<BareRef(UrlDataset), DatasetRef(UrlDataset, FormatCsv)>>
    /\ database_info = << >>


\* 0-based position of the first x in xs
FirstIndex(xs, x) == Min({k \in 1..Len(xs) : xs[k] = x})

\* every path a request got from its sources, by origin: the provided table,
\* then the scraped tables, then the probed datasets
C19_Origins ==
    (IF provided_csv_info THEN <<ProvidedCsvName>> ELSE << >>)
    \o [k \in 1..Len(scraped_data) |-> scraped_data[k].filename]
    \o [k \in 1..Len(database_info) |-> database_info[k].source_url]

\* C19: once built, the allow list holds exactly the non-empty paths of the
\* three origins, each once, in the order in which they are first seen.
C19_AllowListFromOrigins ==
    pc = "synth" =>
        /\ {allowed_paths[k] : k \in 1..Len(allowed_paths)}
             = {C19_Origins[k] : k \in 1..Len(C19_Origins)} \ {<< >>}
        /\ \A i, j \in 1..Len(allowed_paths) :
              i < j => /\ allowed_paths[i] # allowed_paths[j]
                       /\ FirstIndex(C19_Origins, allowed_paths[i])
                            < FirstIndex(C19_Origins, allowed_paths[j])

\* data.csv was scraped and also probed as a dataset: it is listed once, at
\* its first place
C19_Witness ==
    /\ pc = "synth"
    /\ provided_csv_info
    /\ Field(scraped_data, "filename") = <<UrlLocal, LitData \o <<"2">> \o LitDotCsv>>
    /\ Field(database_info, "source_url") = <<UrlDataset, UrlLocal>>
    /\ allowed_paths = <<ProvidedCsvName, UrlLocal, LitData \o <<"2">> \o LitDotCsv,
                         UrlDataset>>


\* the request has built its allow list and catalog and is synthesizing,
\* running or repairing a program
SynthesisBegun == pc \notin {"start", "discover", "scrape", "probe", "breakdown"}

\* C20: from the start of synthesis on, no step changes the allow list or what
\* the catalog is made of (the provided table, the scraped tables, the probed
\* datasets); a pass of the repair loop changes the attempt counter and the
\* program text and leaves the discovered sources and the first synthesis
\* response alone as well.
C20_AllowListAndCatalogFrozen ==
    [][SynthesisBegun =>
          /\ allowed_paths' = allowed_paths
          /\ provided_csv_info' = provided_csv_info
          /\ scraped_data' = scraped_data
          /\ database_info' = database_info
          /\ (pc = "loop" \/ pc = "fixreq") =>
                /\ extracted_sources' = extracted_sources
                /\ horizon_response' = horizon_response
                /\ fix_attempt' >= fix_attempt
                /\ (pc = "fixreq" /\ chatgpt_code' # chatgpt_code) => stage' = "fix"]_vars

\* the second repair pass has replaced the program and is about to run it,
\* with a non-empty allow list
C20_Witness ==
    /\ pc = "run"
    /\ stage = "fix"
    /\ fix_attempt = 2
    /\ hist.written >= 2
    /\ allowed_paths # << >>
    /\ scraped_data # << >>


\* C21: a repaired program that is about to run is what the sanitizer makes,
\* against the allow list, of the text the repair wrote: every program
\* written was sanitized before its execution.
C21_RepairedProgramSanitized ==
    (stage = "fix" /\ pc = "run") =>
        chatgpt_code = SanitizedFile(StripQuality(raw_code), allowed_paths)

\* the repaired program x=open('b') is about to run although nothing allows b
C21_Witness ==
    /\ stage = "fix"
    /\ pc = "run"
    /\ chatgpt_code = <<"x","=","o","p","e","n","(","'","b","'",")">>
    /\ ~PathAllowed(<<"b">>, allowed_paths)
    /\ hist.sanitized < hist.written


\* the prompt carries the value under the name
Carries(prompt, name, v) ==
    \E k \in 1..Len(prompt) :
        /\ prompt[k].kind = "value"
        /\ prompt[k].name = name
        /\ prompt[k].value = v

\* C22: the fix prompt sent in a repair attempt carries the exit code and the
\* output of the failed run and the program text being repaired.
C22_FixPromptCarriesErrorContext ==
    [][pc = "fixreq" =>
          /\ Carries(fix_prompt', "returncode", result.returncode)
          /\ Carries(fix_prompt', "stdout", result.stdout)
          /\ Carries(fix_prompt', "code_content", chatgpt_code)]_vars

\* a fix prompt was sent for a failed run, and it carries no value at all
C22_Witness ==
    /\ hist.fixreq >= 1
    /\ result.returncode = 1
    /\ fix_prompt # << >>
    /\ \A k \in 1..Len(fix_prompt) : fix_prompt[k].kind = "literal"
    /\ Carries(error_message(result, chatgpt_code), "returncode", 1)


\* number of whitespace characters a line starts with
Indentation(line) == Len(line) - Len(LStrip(line))

\* the first pattern match in a one-line program whose path the list does
\* not allow and which has a '=' to its left, if there is one
AssignedMatches(code, allowed) ==
    {m \in UNION {{FindIter(code, patterns[k].lit)[i] :
                     i \in 1..Len(FindIter(code, patterns[k].lit))} :
                  k \in 1..Len(patterns)} :
        /\ ~PathAllowed(m.path, allowed)
        /\ FindChar(code, "=", 0) # -1
        /\ FindChar(code, "=", 0) < m.start}

\* C23: a one-line program whose disallowed match stands to the right of a
\* '=' is rewritten to the text up to the '=', followed by  '' , and starts
\* with as much whitespace as before.
C23_AssignmentKeepsIndentation ==
    (/\ pc = "sanitized"
     /\ FindChar(raw_code, "\n", 0) = -1
     /\ AssignedMatches(raw_code, allowed_paths) # {})
        => /\ Indentation(chatgpt_code) = Indentation(raw_code)
           /\ chatgpt_code = Slice(raw_code, 0, FindChar(raw_code, "=", 0) + 1)
                                \o <<" ", "'", "'">>

\* the line  x=pd.read_csv('b'), indented by one space, comes out indented
\* by two
C23_Witness ==
    /\ pc = "sanitized"
    /\ raw_code = LineCsvAssign
    /\ allowed_paths = << >>
    /\ Indentation(raw_code) = 1
    /\ chatgpt_code = <<" ", " ", "x", "=", " ", "'", "'">>


\* the line with the path of match m (offsets within the line) removed from
\* between its quotes
BlankAt(line, m) ==
    LET close == m.start + Len(m.group0) - 1
    IN  Slice(line, 0, close - Len(m.path)) \o SliceFrom(line, close)

\* the disallowed matches of the CSV-read and file-open patterns in a line
CheckedMatches(line, allowed) ==
    {m \in UNION {{FindIter(line, patterns[k].lit)[i] :
                     i \in 1..Len(FindIter(line, patterns[k].lit))} :
                  k \in {j \in 1..Len(patterns) : CheckedPattern(j)}} :
        ~PathAllowed(m.path, allowed)}

\* no pattern match of the line has a '=' to its left, none is a Parquet read
InPlaceLine(line) ==
    \A k \in 1..Len(patterns) :
        LET ms == FindIter(line, patterns[k].lit)
        IN  /\ patterns[k].ptype = "parquet" => ms = << >>
            /\ \A i \in 1..Len(ms) :
                  FindChar(line, "=", 0) = -1 \/ FindChar(line, "=", 0) > ms[i].start

\* C24: in a program of non-assignment lines with at most one disallowed
\* CSV-read or file-open match each, every such line comes out with only that
\* match's path removed from between its quotes, and every other line comes
\* out as it was.
C24_OnlyOffendingPathBlanked ==
    LET before == SplitLines(raw_code)
        after  == SplitLines(chatgpt_code)
    IN  (/\ pc = "sanitized"
         /\ \A k \in 1..Len(before) :
               /\ InPlaceLine(before[k])
               /\ Cardinality(CheckedMatches(before[k], allowed_paths)) <= 1)
           => /\ Len(after) = Len(before)
              /\ \A k \in 1..Len(before) :
                    LET ms == CheckedMatches(before[k], allowed_paths)
                    IN  after[k] = IF ms = {} THEN before[k]
                                   ELSE BlankAt(before[k], CHOOSE m \in ms : TRUE)

\* in print('b',open('b')) the text 'b' was blanked and the opened path kept
C24_Witness ==
    /\ pc = "sanitized"
    /\ allowed_paths = << >>
    /\ raw_code = LinePrintBoth
    /\ chatgpt_code = <<"p","r","i","n","t","(","'","'",",","o","p","e","n","(","'","b","'",")",")">>


\* the lines that stand inside a fenced block, fence lines left out
RECURSIVE InsideFences(_, _)
InsideFences(lines, inside) ==
    IF lines = << >> THEN << >>
    ELSE IF StartsWith(Strip(Head(lines)), Fence)
    THEN InsideFences(Tail(lines), ~inside)
    ELSE (IF inside THEN <<Head(lines)>> ELSE << >>)
         \o InsideFences(Tail(lines), inside)

\* C25: the cleaned text of a fix response with a fence marker consists of
\* the lines inside its fenced blocks and of nothing else; the cleaned text
\* of a response without fence marker consists of all its lines.
C25_OnlyFencedLinesKept ==
    pc = "cleaned" =>
        LET lines == SplitLines(fixed_code)
        IN  raw_code = Strip(Join(IF FindSub(fixed_code, Fence) # -1
                                  THEN InsideFences(lines, FALSE)
                                  ELSE lines,
                                  <<"\n">>))

\* of the response  a / fence / b / fence  the line a, which stands before
\* the block, is kept
C25_Witness ==
    /\ pc = "cleaned"
    /\ fixed_code = <<"a", "\n">> \o Fence \o <<"\n", "b", "\n">> \o Fence
    /\ raw_code = <<"a", "\n", "b">>


\* C26: a fix response of neither accepted shape ends the request with the
\* error raised; no further repair attempt follows it.
C26_BadFixShapeIsFatal ==
    [][(pc = "fixreq" /\ ~ShapeAccepted(horizon_fix'))
          => (pc' = "done" /\ outcome' = "Raised")]_vars

\* the first fix response had another shape, and the second repair attempt
\* is running the program
C26_Witness ==
    /\ horizon_fix = "other"
    /\ hist.fixreq = 1
    /\ fix_attempt = 2
    /\ pc = "run"
    /\ stage = "rerun"
    /\ outcome = "running"


\* C27: every execution of the program (the run of a stage or its self-heal
\* re-run) executes a revision that was written in that stage, the initial
\* program or a newly repaired one; at most two executions happen per stage.
C27_OnlyNewRevisionsExecuted ==
    /\ [](hist.runs <= 2)
    /\ [][hist.runs' > hist.runs => stage \in {"initial", "fix"}]_vars

\* the first repair attempt has executed the failed initial program again,
\* twice with the self-heal, and only now asks for the fix
C27_Witness ==
    /\ pc = "fixreq"
    /\ stage = "rerun"
    /\ fix_attempt = 1
    /\ hist.written = 1
    /\ hist.runs = 2


\* C28: an install that does not return leaves the result, the run count and
\* the outcome as they were and ends the stage without a re-run; the stage's
\* result is then the failed run that missed the module, and its validation
\* counts it as a failed attempt.
C28_InstallTimeoutSwallowed ==
    /\ [](pc = "install" => (result.returncode # 0 /\ result.missing))
    /\ [][(pc = "install" /\ pc' # "healrun")
             => /\ pc' = AfterStage(stage)
                /\ result' = result
                /\ hist'.runs = hist.runs
                /\ outcome' = outcome]_vars
    /\ []((pc \in {"validate", "fixreq"} /\ hist.installs = 1 /\ hist.runs = 1)
             => (result.returncode # 0 /\ result.missing))
    /\ [][(pc = "validate" /\ result.returncode # 0)
             => (pc' = "loop" /\ hist'.failed = hist.failed + 1)]_vars

\* the install of the initial stage timed out: one run, one install, and the
\* result that missed the module is up for validation
C28_Witness ==
    /\ pc = "validate"
    /\ stage = "initial"
    /\ hist.installs = 1
    /\ hist.runs = 1
    /\ result.returncode # 0
    /\ result.missing


\* the path is empty or holds the hard-excluded dataset prefix
Disallowed(path) == path = << >> \/ Contains(path, ExcludedSource)

\* C29: in every state no probed entry has, and the allow list does not hold,
\* an empty URL or a URL with the hard-excluded dataset prefix.
C29_NoExcludedOrEmptySource ==
    /\ \A k \in 1..Len(database_info) : ~Disallowed(database_info[k].source_url)
    /\ \A k \in 1..Len(allowed_paths) : ~Disallowed(allowed_paths[k])

\* discovery named the excluded dataset, a reference with an empty URL or
\* both next to a dataset that was probed and is now allowed
C29_Witness ==
    /\ pc = "synth"
    /\ \E k \in 1..Len(extracted_sources.database_files) :
          /\ extracted_sources.database_files[k].shape = "object"
          /\ Disallowed(extracted_sources.database_files[k].url)
    /\ database_info # << >>
    /\ InList(UrlDataset, allowed_paths)


\* C30: whatever a request's execution used, the program file and the data
\* files of its allow list, was written by that request.
C30_RequestsIsolated ==
    \A r \in Requests, f \in FileNames : requests[r].ran[f] \in {0, r}

\* request 1 executed its own program on the data.csv that request 2 wrote
C30_Witness ==
    /\ requests[1].ran["program"] = 1
    /\ "data" \in requests[1].wrote
    /\ requests[1].ran["data"] = 2


\* every path that one of the five patterns matches in the text is in the
\* list, by full value or by basename
AllMatchesAllowed(code, allowed) ==
    \A k \in 1..Len(patterns) :
        LET ms == FindIter(code, patterns[k].lit)
        IN  \A i \in 1..Len(ms) : PathAllowed(ms[i].path, allowed)

\* C31: a program all of whose matched paths are allowed comes out of the
\* sanitizer as it went in, and the sanitizer's flag _modified stays unset, so
\* that the file is not written.
C31_AllowedProgramUntouched ==
    (pc = "sanitized" /\ AllMatchesAllowed(raw_code, allowed_paths))
        => /\ chatgpt_code = raw_code
           /\ Sanitize(raw_code, allowed_paths).code = raw_code
           /\ ~Sanitize(raw_code, allowed_paths).modified

\* with a allowed, the program  pd.read_csv('a') / pd.read_csv('d/a')  (one
\* path allowed by value, one by basename) was sanitized and is unchanged
C31_Witness ==
    /\ pc = "sanitized"
    /\ allowed_paths = <<PathA>>
    /\ raw_code = LineCsvFull \o <<"\n">> \o LineCsvBase
    /\ chatgpt_code = raw_code
    /\ hist.sanitized = 1


\* C32: from the head of a repair attempt up to a fix response of neither
\* accepted shape no step changes the program file; such a response ends the
\* attempt as a failed one with the attempt counter, which the head of the
\* loop had raised for it, left as it is, so that three of them exhaust the
\* budget.
C32_UnusableFixKeepsProgram ==
    /\ [](pc = "fixreq" => (stage = "rerun" /\ fix_attempt = hist.fixreq + 1))
    /\ [][(pc = "loop" \/ (stage = "rerun" /\ pc # "fixreq"))
             => chatgpt_code' = chatgpt_code]_vars
    /\ [][(pc = "fixreq" /\ ~ShapeAccepted(horizon_fix'))
             => /\ chatgpt_code' = chatgpt_code
                /\ raw_code' = raw_code
                /\ fix_attempt' = fix_attempt
                /\ hist'.failed = hist.failed + 1
                /\ pc' = "loop"]_vars
    /\ []((outcome = "Exhausted" /\ hist.written = 1) => hist.fixreq = max_fix_attempts)

\* three fix requests came back unusable, the last with the gateway's error
\* object: the budget is used up and the program was written only once
C32_Witness ==
    /\ outcome = "Exhausted"
    /\ horizon_fix = "error"
    /\ hist.fixreq = max_fix_attempts
    /\ fix_attempt = max_fix_attempts
    /\ hist.written = 1
    /\ chatgpt_code # << >>

=============================================================================
